---- MODULE Spec2Model ----
(***************************************************************************)
(* Streaming GIF decoder (src/src/reader/decoder.rs) as a state machine.   *)
(* The decoder object is the record d; one update() call is one action.    *)
(***************************************************************************)
EXTENDS Integers, Sequences, FiniteSets, TLC

VARIABLES d, family, stage, nblocks, tail, seen, sink, log, last, idle, retries, enc, bw

vars == <<d, family, stage, nblocks, tail, seen, sink, log, last, idle, retries, enc, bw>>

------------------------------------------------------------------------------
(* Bounds of the model *)

\* longest slice handed to one update() call
MaxChunk == 2
\* update() calls with arbitrary bytes tried after an error
MaxRetry == 1
\* successive update() calls that consume nothing and change nothing
MaxIdle == 2
\* blocks between the screen descriptor and the trailer of a stream
MaxBlocks == 1
\* capacity of the non-empty output slice
SliceCap == 2

------------------------------------------------------------------------------
(* Small helpers *)

Min(a, b) == IF a < b THEN a ELSE b

Take(s, n) == SubSeq(s, 1, Min(n, Len(s)))

Drop(s, n) == SubSeq(s, Min(n, Len(s)) + 1, Len(s))

RECURSIVE Pow2(_)
Pow2(n) == IF n = 0 THEN 1 ELSE 2 * Pow2(n - 1)

\* Option<T> is a sequence of length 0 (None) or 1 (Some)
None == <<>>

Some(x) == <<x>>

------------------------------------------------------------------------------
(* Wire constants and records of the crate's common module *)

\* Block::from_u8
BlockFromU8(b) ==
    CASE b = 44 -> "Image"
      [] b = 33 -> "Extension"
      [] b = 59 -> "Trailer"
      [] OTHER -> "None"

\* Extension::from_u8
ExtensionFromU8(b) ==
    CASE b = 1 -> "Text"
      [] b = 249 -> "Control"
      [] b = 254 -> "Comment"
      [] b = 255 -> "Application"
      [] OTHER -> "None"

\* DisposalMethod::from_u8
DisposalFromU8(n) ==
    CASE n = 0 -> "Any"
      [] n = 1 -> "Keep"
      [] n = 2 -> "Background"
      [] n = 3 -> "Previous"
      [] OTHER -> "None"

\* Frame::default()
DefaultFrame ==
    [left |-> 0, top |-> 0, width |-> 0, height |-> 0, delay |-> 0,
     dispose |-> "Keep", needs_user_input |-> FALSE, transparent |-> None,
     interlaced |-> FALSE, palette |-> None]

\* DecodeOptions::new()
DefaultOptions ==
    [check_for_end_code |-> FALSE, skip_frame_decoding |-> FALSE,
     check_frame_consistency |-> FALSE, allow_unknown_blocks |-> FALSE]

PLTE_CHANNELS == 3

------------------------------------------------------------------------------
(* Decoder states and events *)

St(s, v, n, ver) == [s |-> s, v |-> v, n |-> n, ver |-> ver]

Magic(i, version) == St("Magic", "", i, version)

U16Byte1(v, lo) == St("U16Byte1", v, lo, <<>>)

U16(v) == St("U16", v, 0, <<>>)

Byte(v, gf) == St("Byte", v, gf, <<>>)

GlobalPalette(n) == St("GlobalPalette", "", n, <<>>)

BlockStart(b) == St("BlockStart", "", b, <<>>)

BlockEnd(b) == St("BlockEnd", "", b, <<>>)

ExtensionBlock(id) == St("ExtensionBlock", "", id, <<>>)

SkipBlock(n) == St("SkipBlock", "", n, <<>>)

LocalPalette(n) == St("LocalPalette", "", n, <<>>)

LzwInit(b) == St("LzwInit", "", b, <<>>)

DecodeSubBlock(n) == St("DecodeSubBlock", "", n, <<>>)

CopySubBlock(n) == St("CopySubBlock", "", n, <<>>)

FrameDecoded == St("FrameDecoded", "", 0, <<>>)

Trailer == St("Trailer", "", 0, <<>>)

\* Decoded<'a>: e is the variant, x its number or label, data its bytes,
\* f the frame of FrameMetadata (as Option)
Ev(e, x, data, f) == [e |-> e, x |-> x, data |-> data, f |-> f]

Nothing == Ev("Nothing", 0, <<>>, None)

\* Result of next_state / update: kind is "Ok", "Format", "Io" or "Panic"; pre is
\* the FSM state the last step of the call started in; out is what the step put
\* into the output sink in copy mode (the start of a slice, the bytes appended
\* to a Vec)
Ok(dd, n, ev) ==
    [d |-> dd, kind |-> "Ok", n |-> n, ev |-> ev, msg |-> "", pre |-> dd.state, out |-> <<>>]

Err(dd, kind, msg) ==
    [d |-> dd, kind |-> kind, n |-> 0, ev |-> Nothing, msg |-> msg, pre |-> dd.state,
     out |-> <<>>]

\* the result r of a step that put bytes into the output sink
Wrote(r, bytes) == [r EXCEPT !.out = bytes]

\* the goto! macro
Goto(dd, n, state, ev) == Ok([dd EXCEPT !.state = state], n, ev)

------------------------------------------------------------------------------
(* Output sinks: OutputBuffer::Slice(cap bytes), Vec, None *)

Slice(cap) == [kind |-> "Slice", cap |-> cap]

VecSink == [kind |-> "Vec", cap |-> 0]

NoSink == [kind |-> "None", cap |-> 0]

------------------------------------------------------------------------------
(* The LZW decoder of the weezl crate, which LzwReader wraps.  Each          *)
(* compressed byte stands for one code: b % 4 = 0 expands to one pixel,      *)
(* 2 to two pixels, 1 is the end code, 3 is an invalid code.  Output that    *)
(* does not fit the output slice stays buffered in the decoder (pending).    *)

NewLzwDecoder == [ended |-> FALSE, pending |-> 0]

\* result of weezl's Decoder::decode_bytes
LzwResult(dec, cin, cout, bad) ==
    [dec |-> dec, consumed_in |-> cin, consumed_out |-> cout,
     status |-> IF bad THEN "InvalidCode"
                ELSE IF dec.ended THEN "Done"
                ELSE IF cin = 0 /\ cout = 0 THEN "NoProgress"
                ELSE "Ok"]

RECURSIVE LzwCodes(_, _, _, _, _)
LzwCodes(dec, data, room, cin, cout) ==
    IF cin = Len(data) \/ dec.pending > 0 \/ dec.ended
    THEN LzwResult(dec, cin, cout, FALSE)
    ELSE LET code == data[cin + 1] % 4
             len == IF code = 2 THEN 2 ELSE 1
             w == Min(len, room)
         IN CASE code = 3 -> LzwResult(dec, cin, cout, TRUE)
              [] code = 1 -> LzwResult([dec EXCEPT !.ended = TRUE], cin + 1, cout, FALSE)
              [] OTHER ->
                   IF room = 0 THEN LzwResult(dec, cin, cout, FALSE)
                   ELSE LzwCodes([dec EXCEPT !.pending = len - w], data,
                                 room - w, cin + 1, cout + w)

WeezlDecodeBytes(dec, data, cap) ==
    IF dec.ended THEN LzwResult(dec, 0, 0, FALSE)
    ELSE LET w0 == Min(dec.pending, cap)
         IN LzwCodes([dec EXCEPT !.pending = dec.pending - w0], data, cap - w0, 0, w0)

------------------------------------------------------------------------------
(* LzwReader *)

\* LzwReader::new
NewLzwReader(check_for_end_code) ==
    [decoder |-> None, min_code_size |-> 0, check_for_end_code |-> check_for_end_code]

\* LzwReader::reset: the code size it rejects
LzwInvalidCodeSize(min_code_size) == min_code_size > 11

\* LzwReader::reset, once the code size is accepted
LzwReset(lzw, min_code_size) ==
    IF lzw.min_code_size # min_code_size \/ lzw.decoder = None
    THEN [lzw EXCEPT !.min_code_size = min_code_size, !.decoder = Some(NewLzwDecoder)]
    ELSE [lzw EXCEPT !.decoder = Some(NewLzwDecoder)]

\* LzwReader::has_ended
LzwHasEnded(lzw) == IF lzw.decoder = None THEN TRUE ELSE lzw.decoder[1].ended

\* the error kind LzwReader::decode_bytes gives its failures (io::Result)
LzwErrorKind == "Io"

\* LzwReader::decode_bytes, `match decoded.status`: [lzw, kind, msg, consumed_in,
\* consumed_out]
LzwDecoded(lzw, decoded) ==
    LET l2 == [lzw EXCEPT !.decoder = Some(decoded.dec)]
    IN CASE decoded.status = "NoProgress" /\ lzw.check_for_end_code ->
              [lzw |-> l2, kind |-> LzwErrorKind, msg |-> "No end code in lzw stream",
               consumed_in |-> 0, consumed_out |-> 0]
         [] decoded.status = "InvalidCode" ->
              [lzw |-> l2, kind |-> LzwErrorKind, msg |-> "invalid code in LZW stream",
               consumed_in |-> 0, consumed_out |-> 0]
         [] OTHER ->
              [lzw |-> l2, kind |-> "Ok", msg |-> "",
               consumed_in |-> decoded.consumed_in, consumed_out |-> decoded.consumed_out]

\* LzwReader::decode_bytes
LzwDecodeBytes(lzw, data, snk) ==
    IF lzw.decoder = None
    THEN [lzw |-> lzw, kind |-> "Io", msg |-> "Unsupported", consumed_in |-> 0, consumed_out |-> 0]
    ELSE IF snk.kind = "Vec"
    THEN [lzw |-> lzw, kind |-> "Io", msg |-> "Unsupported", consumed_in |-> 0, consumed_out |-> 0]
    ELSE LzwDecoded(lzw, WeezlDecodeBytes(lzw.decoder[1], data,
                                          IF snk.kind = "Slice" THEN snk.cap ELSE 0))

------------------------------------------------------------------------------
(* StreamingDecoder *)

\* StreamingDecoder::with_options
WithOptions(options) ==
    [state |-> Magic(0, <<0, 0, 0, 0, 0, 0>>),
     lzw_reader |-> NewLzwReader(options.check_for_end_code),
     skip_extensions |-> TRUE,
     skip_frame_decoding |-> options.skip_frame_decoding,
     check_frame_consistency |-> options.check_frame_consistency,
     allow_unknown_blocks |-> options.allow_unknown_blocks,
     version |-> "V87a",
     width |-> 0,
     height |-> 0,
     global_color_table |-> <<>>,
     background_color |-> <<0, 0, 0, 255>>,
     ext |-> [id |-> 0, data |-> <<>>, is_block_end |-> TRUE],
     current |-> None]

\* no frame is ever created
AddFrameNever(dd) == dd

\* StreamingDecoder::add_frame
AddFrame(dd) == IF dd.current = None THEN [dd EXCEPT !.current = Some(DefaultFrame)] ELSE dd

\* current_frame_mut() unwraps None: the call panics
Panic(dd) == Err(dd, "Panic", "called Option::unwrap() on a None value")

IsGifFirstByte(version) == version[1] = 71

\* the four bytes of the [u8; 6] signature checks
IsGif(version) == SubSeq(version, 1, 3) = <<71, 73, 70>>

VersionOf(version) ==
    CASE SubSeq(version, 4, 6) = <<56, 55, 97>> -> "V87a"
      [] SubSeq(version, 4, 6) = <<56, 57, 97>> -> "V89a"
      [] OTHER -> "None"

\* number of palette bytes a packed flags byte announces
TableBytes(flags) == PLTE_CHANNELS * Pow2((flags % 8) + 1)

FrameOutOfBoundsWrapping(width, height, frame) ==
    \/ (frame.left + frame.width) % 65536 > width
    \/ (frame.top + frame.height) % 65536 > height

\* the consistency check of the ImageFlags arm
FrameOutOfBounds(width, height, frame) ==
    LET cw == IF width >= frame.width THEN Some(width - frame.width) ELSE None
        ch == IF height >= frame.height THEN Some(height - frame.height) ELSE None
        Less(o, x) == IF o = None THEN TRUE ELSE o[1] < x
    IN Less(cw, frame.left) \/ Less(ch, frame.top)

------------------------------------------------------------------------------
(* next_state, one operator per arm of `match self.state`.  dd is the        *)
(* decoder, b the first byte of buf, snk the output sink, mem whether a      *)
(* memory reservation made by the step succeeds.                             *)

OutOfMemory(dd) == Err(dd, "Io", "OutOfMemory")

MagicArm(dd, b) ==
    LET i == dd.state.n
        version == dd.state.ver
    IN IF i < 6
       THEN Goto(dd, 1, Magic(i + 1, [version EXCEPT ![i + 1] = b]), Nothing)
       ELSE IF IsGif(version)
       THEN IF VersionOf(version) = "None"
            THEN Err(dd, "Format", "unsupported GIF version")
            ELSE Goto([dd EXCEPT !.version = VersionOf(version)], 1,
                      U16Byte1("ScreenWidth", b), Nothing)
       ELSE Err(dd, "Format", "malformed GIF header")

\* writes one field of the current frame, then goes to the next state
WithFrame(dd, field, value, state) ==
    IF dd.current = None THEN Panic(dd)
    ELSE Goto([dd EXCEPT !.current[1][field] = value], 1, state, Nothing)

U16Byte1Arm(dd, b) ==
    LET next == dd.state.v
        lo == dd.state.n
        value == b * 256 + lo
    IN CASE next = "ScreenWidth" -> Goto([dd EXCEPT !.width = value], 1, U16("ScreenHeight"), Nothing)
         [] next = "ScreenHeight" ->
              Goto([dd EXCEPT !.height = value], 1, Byte("GlobalFlags", 0), Nothing)
         [] next = "Delay" ->
              IF dd.current = None THEN Panic(dd)
              ELSE Goto([dd EXCEPT !.current[1].delay = value,
                                   !.ext.data = dd.ext.data \o <<lo, b>>],
                        1, Byte("TransparentIdx", 0), Nothing)
         [] next = "ImageLeft" -> WithFrame(dd, "left", value, U16("ImageTop"))
         [] next = "ImageTop" -> WithFrame(dd, "top", value, U16("ImageWidth"))
         [] next = "ImageWidth" -> WithFrame(dd, "width", value, U16("ImageHeight"))
         [] next = "ImageHeight" -> WithFrame(dd, "height", value, Byte("ImageFlags", 0))

ControlFlagsArm(dd, b) ==
    LET d1 == [dd EXCEPT !.ext.data = Append(dd.ext.data, b)]
        method == DisposalFromU8((b \div 4) % 8)
    IN IF d1.current = None THEN Panic(d1)
       ELSE Goto([d1 EXCEPT
                    !.current[1].transparent = IF b % 2 # 0 THEN Some(0) ELSE @,
                    !.current[1].needs_user_input = (b \div 2) % 2 # 0,
                    !.current[1].dispose = IF method = "None" THEN "Any" ELSE method],
                 1, U16("Delay"), Nothing)

TransparentIdxArm(dd, b) ==
    LET d1 == [dd EXCEPT !.ext.data = Append(dd.ext.data, b)]
    IN IF d1.current = None THEN Panic(d1)
       ELSE Goto([d1 EXCEPT !.current[1].transparent = IF @ # None THEN Some(b) ELSE @],
                 1, SkipBlock(0), Nothing)

ImageFlagsArm(dd, b, mem) ==
    LET local_table == b >= 128
        interlaced == (b \div 64) % 2 # 0
        entries == TableBytes(b)
    IN IF dd.current = None THEN Panic(dd)
       ELSE LET d1 == [dd EXCEPT !.current[1].interlaced = interlaced]
            IN IF dd.check_frame_consistency
                  /\ FrameOutOfBounds(dd.width, dd.height, d1.current[1])
               THEN Err(d1, "Format", "frame descriptor is out-of-bounds")
               ELSE IF local_table
               THEN IF mem
                    THEN Goto([d1 EXCEPT !.current[1].palette = Some(<<>>)], 1,
                              LocalPalette(entries), Nothing)
                    ELSE OutOfMemory(d1)
               ELSE Goto(d1, 1, Byte("CodeSize", 0), Nothing)

ByteArm(dd, b, mem) ==
    LET value == dd.state.v
        global_flags == dd.state.n
    IN CASE value = "GlobalFlags" -> Goto(dd, 1, Byte("Background", b), Nothing)
         [] value = "Background" ->
              Goto(dd, 1, Byte("AspectRatio", global_flags), Ev("BackgroundColor", b, <<>>, None))
         [] value = "AspectRatio" ->
              IF global_flags >= 128
              THEN IF mem THEN Goto(dd, 1, GlobalPalette(TableBytes(global_flags)), Nothing)
                   ELSE OutOfMemory(dd)
              ELSE Goto(dd, 1, GlobalPalette(0), Nothing)
         [] value = "ControlFlags" -> ControlFlagsArm(dd, b)
         [] value = "TransparentIdx" -> TransparentIdxArm(dd, b)
         [] value = "ImageFlags" -> ImageFlagsArm(dd, b, mem)
         [] value = "CodeSize" -> Goto(dd, 1, LzwInit(b), Nothing)

GlobalPaletteArm(dd, b, buf) ==
    LET left == dd.state.n
        n == Min(left, Len(buf))
        gct == dd.global_color_table
    IN IF left > 0
       THEN Goto([dd EXCEPT !.global_color_table = gct \o Take(buf, n)], n,
                 GlobalPalette(left - n), Nothing)
       ELSE LET idx == dd.background_color[1]
                bg == IF Len(gct) >= PLTE_CHANNELS * (idx + 1)
                      THEN SubSeq(gct, PLTE_CHANNELS * idx + 1, PLTE_CHANNELS * idx + PLTE_CHANNELS)
                           \o <<dd.background_color[4]>>
                      ELSE [dd.background_color EXCEPT ![1] = 0]
            IN Goto([dd EXCEPT !.background_color = bg, !.global_color_table = <<>>], 1,
                    BlockStart(b), Ev("GlobalPalette", 0, gct, None))

\* whether a block of unknown type is skipped rather than rejected
SkipsUnknownBlocks(dd) == dd.allow_unknown_blocks

BlockStartArm(dd, b) ==
    LET type_ == dd.state.n
        block == BlockFromU8(type_)
    IN CASE block = "Image" ->
              Goto(AddFrame(dd), 1, U16Byte1("ImageLeft", b), Ev("BlockStart", type_, <<>>, None))
         [] block = "Extension" ->
              Goto(dd, 1, ExtensionBlock(b), Ev("BlockStart", type_, <<>>, None))
         [] block = "Trailer" ->
              Goto(dd, 0, Trailer, Ev("BlockStart", type_, <<>>, None))
         [] OTHER ->
              IF SkipsUnknownBlocks(dd)
              THEN Goto(dd, 1, SkipBlock(b), Nothing)
              ELSE Err(dd, "Format", "unknown block type encountered")

BlockEndArm(dd, b) ==
    LET terminator == dd.state.n
    IN IF terminator = 0
       THEN IF BlockFromU8(b) = "Trailer"
            THEN Goto(dd, 0, BlockStart(b), Nothing)
            ELSE Goto(dd, 1, BlockStart(b), Nothing)
       ELSE Err(dd, "Format", "expected block terminator not found")

ControlExtensionLengthAtLeast(b) == b >= 4

\* read_control_extension: whether the length byte is accepted
ControlExtensionLengthOk(b) == b = 4

ExtensionBlockArm(dd, b) ==
    LET id == dd.state.n
        d1 == [dd EXCEPT !.ext.id = id, !.ext.data = <<b>>]
        ext == ExtensionFromU8(id)
    IN CASE ext = "Control" ->
              LET d2 == [AddFrame(d1) EXCEPT !.ext.data = Append(d1.ext.data, b)]
              IN IF ControlExtensionLengthOk(b)
                 THEN Goto(d2, 1, Byte("ControlFlags", 0), Nothing)
                 ELSE Err(d2, "Format", "control extension has wrong length")
         [] ext \in {"Text", "Comment", "Application"} -> Goto(d1, 1, SkipBlock(b), Nothing)
         [] OTHER -> Err(d1, "Format", "unknown extention block encountered")

SkipBlockArm(dd, b, buf) ==
    LET left == dd.state.n
        n == Min(left, Len(buf))
    IN IF left > 0
       THEN Goto([dd EXCEPT !.ext.data = dd.ext.data \o Take(buf, n)], n,
                 SkipBlock(left - n), Nothing)
       ELSE IF b = 0
       THEN Goto([dd EXCEPT !.ext.is_block_end = TRUE], 1, BlockEnd(b),
                 Ev("BlockFinished", dd.ext.id, dd.ext.data, None))
       ELSE Goto([dd EXCEPT !.ext.is_block_end = FALSE], 1, SkipBlock(b),
                 Ev("SubBlockFinished", dd.ext.id, dd.ext.data, None))

LocalPaletteArm(dd, b, buf) ==
    LET left == dd.state.n
        n == Min(left, Len(buf))
    IN IF left > 0
       THEN IF dd.current = None THEN Panic(dd)
            ELSE Goto([dd EXCEPT !.current[1].palette =
                                     IF @ # None THEN Some(@[1] \o Take(buf, n)) ELSE @],
                      n, LocalPalette(left - n), Nothing)
       ELSE Goto(dd, 1, LzwInit(b), Nothing)

DecodesAlways(dd) == TRUE

\* whether the image data is decompressed (DecodeSubBlock) or copied (CopySubBlock)
Decodes(dd) == ~dd.skip_frame_decoding

LzwInitArm(dd, b) ==
    LET min_code_size == dd.state.n
    IN IF Decodes(dd)
       THEN IF LzwInvalidCodeSize(min_code_size)
            THEN Err(dd, "Format", "invalid minimal code size")
            ELSE LET d1 == [dd EXCEPT !.lzw_reader = LzwReset(dd.lzw_reader, min_code_size)]
                 IN IF d1.current = None THEN Panic(d1)
                    ELSE Goto(d1, 1, DecodeSubBlock(b), Ev("FrameMetadata", 0, <<>>, d1.current))
       ELSE IF dd.current = None THEN Panic(dd)
            ELSE Goto(dd, 1, CopySubBlock(b), Ev("FrameMetadata", min_code_size, <<>>, dd.current))

CopiedSubBlockLost(left, consumed) == CopySubBlock(0)

\* the state CopySubBlock goes to after copying part of a sub-block
CopiedSubBlock(left, consumed) == CopySubBlock(left - consumed)

CopySubBlockArm(dd, b, buf, snk, mem) ==
    LET left == dd.state.n
        n == Min(left, Len(buf))
        len == Min(n, snk.cap)
    IN IF left > 0
       THEN CASE snk.kind = "Slice" ->
                   Wrote(Goto(dd, len, CopiedSubBlock(left, len),
                              Ev("LzwDataCopied", len, <<>>, None)),
                         Take(buf, len))
              [] snk.kind = "Vec" ->
                   IF mem
                   THEN Wrote(Goto(dd, n, CopiedSubBlock(left, n),
                                   Ev("LzwDataCopied", n, <<>>, None)),
                              Take(buf, n))
                   ELSE OutOfMemory(dd)
              [] OTHER ->
                   Goto(dd, n, CopiedSubBlock(left, n), Ev("LzwDataCopied", 0, <<>>, None))
       ELSE IF b # 0
       THEN Goto(dd, 1, CopySubBlock(b), Nothing)
       ELSE Goto(dd, 0, FrameDecoded, Nothing)

\* the state DecodeSubBlock goes to when it skips the rest of a slice
SkippedSubBlock(left, n) == DecodeSubBlock(0)

\* DecodeSubBlock with left > 0, after decode_bytes(&buf[..n]) returned r
DecodedSubBlock(dd, left, n, r) ==
    LET d1 == [dd EXCEPT !.lzw_reader = r.lzw]
        consumed == IF r.consumed_in = 0 /\ r.consumed_out = 0 THEN n ELSE r.consumed_in
    IN IF r.kind # "Ok" THEN Err(d1, r.kind, r.msg)
       ELSE Goto(d1, consumed, DecodeSubBlock(left - consumed),
                 Ev("BytesDecoded", r.consumed_out, <<>>, None))

\* DecodeSubBlock at the block terminator, after decode_bytes(&[]) returned r
DecodedRest(dd, r) ==
    LET d1 == [dd EXCEPT !.lzw_reader = r.lzw]
    IN IF r.kind # "Ok" THEN Err(d1, r.kind, r.msg)
       ELSE IF r.consumed_out > 0
       THEN Goto(d1, 0, DecodeSubBlock(0), Ev("BytesDecoded", r.consumed_out, <<>>, None))
       ELSE Goto(d1, 0, FrameDecoded, Nothing)

DecodeSubBlockArm(dd, b, buf, snk) ==
    LET left == dd.state.n
        n == Min(left, Len(buf))
    IN IF left > 0
       THEN IF LzwHasEnded(dd.lzw_reader) \/ snk.kind = "None"
            THEN Goto(dd, n, SkippedSubBlock(left, n), Ev("BytesDecoded", 0, <<>>, None))
            ELSE DecodedSubBlock(dd, left, n, LzwDecodeBytes(dd.lzw_reader, Take(buf, n), snk))
       ELSE IF b # 0
       THEN Goto(dd, 1, DecodeSubBlock(b), Nothing)
       ELSE DecodedRest(dd, LzwDecodeBytes(dd.lzw_reader, <<>>, snk))

FrameDecodedArm(dd, b) ==
    Goto([dd EXCEPT !.current = None], 1, BlockEnd(b), Ev("DataEnd", 0, <<>>, None))

TrailerArmGoesOn(dd) == Goto(dd, 1, BlockEnd(0), Ev("Trailer", 0, <<>>, None))

TrailerArm(dd) == Ok(dd, 0, Ev("Trailer", 0, <<>>, None))

\* StreamingDecoder::next_state
NextState(dd, buf, snk, mem) ==
    IF buf = <<>> THEN Err(dd, "Format", "empty buf")
    ELSE LET b == buf[1]
             s == dd.state.s
         IN CASE s = "Magic" -> MagicArm(dd, b)
              [] s = "U16" -> Goto(dd, 1, U16Byte1(dd.state.v, b), Nothing)
              [] s = "U16Byte1" -> U16Byte1Arm(dd, b)
              [] s = "Byte" -> ByteArm(dd, b, mem)
              [] s = "GlobalPalette" -> GlobalPaletteArm(dd, b, buf)
              [] s = "BlockStart" -> BlockStartArm(dd, b)
              [] s = "BlockEnd" -> BlockEndArm(dd, b)
              [] s = "ExtensionBlock" -> ExtensionBlockArm(dd, b)
              [] s = "SkipBlock" -> SkipBlockArm(dd, b, buf)
              [] s = "LocalPalette" -> LocalPaletteArm(dd, b, buf)
              [] s = "LzwInit" -> LzwInitArm(dd, b)
              [] s = "CopySubBlock" -> CopySubBlockArm(dd, b, buf, snk, mem)
              [] s = "DecodeSubBlock" -> DecodeSubBlockArm(dd, b, buf, snk)
              [] s = "FrameDecoded" -> FrameDecodedArm(dd, b)
              [] s = "Trailer" -> TrailerArm(dd)

MoreInputButLast(buf) == Len(buf) > 1

MoreInputAlways(buf) == TRUE

\* the loop condition of update(): there is input left to look at
MoreInput(buf) == Len(buf) > 0

\* whether update() returns the result of a step to its caller
Returns(r) == r.kind # "Ok" \/ r.ev.e # "Nothing"

RECURSIVE UpdateLoop(_, _, _, _, _)
\* the body of the loop of update(), r being what next_state returned
UpdateStep(dd, buf, snk, mem, done, r) ==
    IF Returns(r)
    THEN [r EXCEPT !.n = done + r.n, !.pre = dd.state]
    ELSE UpdateLoop(r.d, Drop(buf, r.n), snk, mem, done + r.n)

\* StreamingDecoder::update; done is len - buf.len() so far
UpdateLoop(dd, buf, snk, mem, done) ==
    IF ~MoreInput(buf) THEN Ok(dd, done, Nothing)
    ELSE UpdateStep(dd, buf, snk, mem, done, NextState(dd, buf, snk, mem))

Update(dd, buf, snk, mem) == UpdateLoop(dd, buf, snk, mem, 0)

------------------------------------------------------------------------------
(* The encoder.  io::Result is a record: res is "Ok" or the message of the   *)
(* io::Error (all of kind InvalidInput).  w is the output written so far.    *)

\* DisposalMethod as u8
DisposalToU8(m) ==
    CASE m = "Any" -> 0
      [] m = "Keep" -> 1
      [] m = "Background" -> 2
      [] m = "Previous" -> 3

\* WriteBytesExt::write_le for u16
WriteLe16(v) == <<v % 256, v \div 256>>

\* the length of BlockWriter's buffer, the longest sub-block
BUF_LEN == 255

\* flag_size without the arms for more than 16 colours
flag_size_to_16(size) ==
    IF size <= 2 THEN 0
    ELSE IF size \in 3..4 THEN 1
    ELSE IF size \in 5..8 THEN 2
    ELSE 3

\* flag_size: the first arm that matches
flag_size(size) ==
    IF size <= 2 THEN 0
    ELSE IF size \in 3..4 THEN 1
    ELSE IF size \in 5..8 THEN 2
    ELSE IF size \in 7..16 THEN 3
    ELSE IF size \in 17..32 THEN 4
    ELSE IF size \in 33..64 THEN 5
    ELSE IF size \in 65..128 THEN 6
    ELSE IF size \in 129..256 THEN 7
    ELSE 7

\* an encoder: stage is "none" before Encoder::new, "open" while the encoder is
\* alive, "failed" when Encoder::new returned an error, "released" once dropped;
\* w is the Vec<u8> it writes to; res is the result of the last call; given, frames,
\* calls and errors are ghost fields: the palette passed to Encoder::new, the
\* frames written without error, the calls made, the calls that returned Err
Encoder(w, width, height) ==
    [stage |-> "open", w |-> w, global_palette |-> FALSE, width |-> width,
     height |-> height, res |-> "Ok", given |-> <<>>, frames |-> <<>>, calls |-> 0,
     errors |-> 0]

\* no encoder has been made
NoEncoder == [Encoder(<<>>, 0, 0) EXCEPT !.stage = "none"]

\* n zero bytes
Zeros(n) == [i \in 1..n |-> 0]

\* BlockWriter::new
NewBlockWriter(w) == [w |-> w, bytes |-> 0, buf |-> <<>>]

\* a write call that reports the whole slice as written
BlockWriteClaimsAll(b, buf) ==
    LET to_copy == Min(Len(buf), BUF_LEN - b.bytes)
        filled == b.buf \o Take(buf, to_copy)
    IN IF b.bytes + to_copy = BUF_LEN
       THEN [bw |-> [w |-> b.w \o <<BUF_LEN>> \o filled, bytes |-> 0, buf |-> <<>>],
             n |-> Len(buf)]
       ELSE [bw |-> [b EXCEPT !.bytes = b.bytes + to_copy, !.buf = filled], n |-> Len(buf)]

\* BlockWriter::write: the writer after the call and the count it returns
BlockWrite(b, buf) ==
    LET to_copy == Min(Len(buf), BUF_LEN - b.bytes)
        filled == b.buf \o Take(buf, to_copy)
    IN IF b.bytes + to_copy = BUF_LEN
       THEN [bw |-> [w |-> b.w \o <<BUF_LEN>> \o filled, bytes |-> 0, buf |-> <<>>],
             n |-> to_copy]
       ELSE [bw |-> [b EXCEPT !.bytes = b.bytes + to_copy, !.buf = filled], n |-> to_copy]

\* a release that writes the buffer even when it is empty
BlockDropAlways(b) == b.w \o <<b.bytes>> \o b.buf

\* Drop for BlockWriter: the output behind the writer once it is released
BlockDrop(b) == IF b.bytes > 0 THEN b.w \o <<b.bytes>> \o b.buf ELSE b.w

\* a block writer in use: stage is "none" before BlockWriter::new, "open" while
\* the writer is alive, "released" once dropped; out is the output behind it;
\* sent is a ghost field: the bytes that write calls reported as written
UsedBlockWriter(stage_, writer, out, sent) ==
    [stage |-> stage_, writer |-> writer, out |-> out, sent |-> sent]

\* no block writer has been made
NoBlockWriter == UsedBlockWriter("none", NewBlockWriter(<<>>), <<>>, <<>>)

RECURSIVE BlockWriteAll(_, _)
\* write_all after one write call returned r: go on with the rest of the slice
BlockWriteRest(buf, r) == BlockWriteAll(r.bw, Drop(buf, r.n))

\* Write::write_all on a BlockWriter: write until the slice is used up
BlockWriteAll(b, buf) ==
    IF buf = <<>> THEN b ELSE BlockWriteRest(buf, BlockWrite(b, buf))


RECURSIVE BitOr(_, _)
\* a | b
BitOr(a, b) ==
    IF a = 0 THEN b
    ELSE IF b = 0 THEN a
    ELSE (IF a % 2 = 1 \/ b % 2 = 1 THEN 1 ELSE 0) + 2 * BitOr(a \div 2, b \div 2)

\* a << k on u8
Shl8(a, k) == (a * Pow2(k)) % 256

\* self.w.write_all / write_le on the Vec<u8>
EncWrite(e, bytes) == [e EXCEPT !.w = @ \o bytes, !.res = "Ok"]

\* return Err(io::Error::new(io::ErrorKind::InvalidInput, msg))
InvalidInput(e, msg) == [e EXCEPT !.res = msg]

\* the messages of the encoder's errors
TooManyColors == "Too many colors"

NoPaletteGiven == "The GIF format requires a color palette but none was given."

\* the toy LZW encoder that stands for weezl's: one code byte per pixel, which the
\* toy decoder reads as one pixel, then the end code
LzwEncodeAll(data) == [i \in 1..Len(data) |-> (4 * data[i]) % 256] \o <<1>>

\* ExtensionData::Control and ExtensionData::Repetitions
Control(flags, delay, trns) == [type |-> "Control", flags |-> flags, delay |-> delay, trns |-> trns]

Repetitions(finite, no) == [type |-> "Repetitions", finite |-> finite, no |-> no]

\* ExtensionData::new_control_ext
new_control_ext(delay, dispose, needs_user_input, trns) ==
    Control(BitOr(BitOr(IF trns # None THEN 1 ELSE 0,
                        Shl8(IF needs_user_input THEN 1 ELSE 0, 1)),
                  Shl8(DisposalToU8(dispose), 2)),
            delay,
            IF trns # None THEN trns[1] ELSE 0)

\* Encoder::write_screen_desc
write_screen_desc(e, flags) ==
    EncWrite(e, <<71, 73, 70, 56, 57, 97>> \o WriteLe16(e.width) \o WriteLe16(e.height) \o <<flags, 0, 0>>)

\* the greatest number of colours of a table
MAX_COLORS == 256

\* write_color_table without the padding entries
write_color_table_unpadded(e, table) ==
    IF Len(table) \div 3 > MAX_COLORS THEN InvalidInput(e, TooManyColors)
    ELSE EncWrite(e, Take(table, (Len(table) \div 3) * 3))

\* Encoder::write_color_table
write_color_table(e, table) ==
    IF Len(table) \div 3 > MAX_COLORS THEN InvalidInput(e, TooManyColors)
    ELSE EncWrite(e, Take(table, (Len(table) \div 3) * 3)
                       \o Zeros(3 * (2 * Pow2(flag_size(Len(table) \div 3)) - Len(table) \div 3)))

\* the packed byte of the screen descriptor, with a colour resolution of 8 bits
GlobalFlagsFullResolution(num_colors) == BitOr(BitOr(128, flag_size(num_colors)), 112)

\* the packed byte of the screen descriptor
GlobalFlags(num_colors) ==
    BitOr(BitOr(128, flag_size(num_colors)), Shl8(flag_size(num_colors), 4))

\* Encoder::write_global_palette
write_global_palette(e, palette) ==
    IF Len(palette) \div 3 > MAX_COLORS
    THEN InvalidInput([e EXCEPT !.global_palette = TRUE], TooManyColors)
    ELSE write_color_table(
             write_screen_desc([e EXCEPT !.global_palette = TRUE],
                               GlobalFlags(Len(palette) \div 3)),
             palette)

\* an encoder that is dropped without writing
DropEncoderSilent(e, stage_) == [e EXCEPT !.stage = stage_]

\* Drop for Encoder
DropEncoder(e, stage_) == [e EXCEPT !.w = @ \o <<59>>, !.stage = stage_]

\* what Encoder::new leaves: the encoder, or on an error the output of the
\* encoder that was dropped
NewResult(e) == IF e.res = "Ok" THEN e ELSE DropEncoder(e, "failed")

\* Encoder::new
NewEncoder(width, height, global_palette) ==
    NewResult(write_global_palette([Encoder(<<>>, width, height) EXCEPT !.given = global_palette],
                                   global_palette))

\* Encoder::write_extension
write_extension(e, extension) ==
    IF extension.type = "Repetitions" /\ extension.finite /\ extension.no = 0
    THEN [e EXCEPT !.res = "Ok"]
    ELSE IF extension.type = "Control"
    THEN EncWrite(e, <<33, 249, 4, extension.flags>> \o WriteLe16(extension.delay)
                       \o <<extension.trns>> \o <<0>>)
    ELSE EncWrite(e, <<33, 255, 11, 78, 69, 84, 83, 67, 65, 80, 69, 50, 46, 48, 3, 1>>
                       \o WriteLe16(IF extension.finite THEN extension.no ELSE 0) \o <<0>>)

RECURSIVE Chunks(_)
\* slice::chunks(0xFF), each chunk behind its length byte
Chunks(block) ==
    IF block = <<>> THEN <<>>
    ELSE <<Min(Len(block), BUF_LEN)>> \o Take(block, BUF_LEN) \o Chunks(Drop(block, BUF_LEN))

RECURSIVE RawBlocks(_)
\* the loop over the payload blocks of write_raw_extension
RawBlocks(data) ==
    IF data = <<>> THEN <<>> ELSE Chunks(Head(data)) \o RawBlocks(Tail(data))

\* Encoder::write_raw_extension
write_raw_extension(e, func, data) == EncWrite(e, <<33, func>> \o RawBlocks(data) \o <<0>>)

\* the min-code-size byte without the arm that turns 1 into 2
MinCodeSizeUnclamped(m) == flag_size(m + 1) + 1

\* the min-code-size byte of write_image_block for a buffer whose greatest byte is m
MinCodeSize(m) == IF flag_size(m + 1) + 1 = 1 THEN 2 ELSE flag_size(m + 1) + 1

\* data.iter().max().unwrap_or(&0)
MaxOf(data) ==
    IF data = <<>> THEN 0
    ELSE CHOOSE m \in {data[i] : i \in 1..Len(data)} :
             \A i \in 1..Len(data) : data[i] <= m

\* Encoder::write_image_block
write_image_block(e, data) ==
    [e EXCEPT !.w = BlockDrop(BlockWriteAll(
                                  NewBlockWriter(e.w \o <<MinCodeSize(MaxOf(data))>>),
                                  LzwEncodeAll(data)))
                      \o <<0>>,
              !.res = "Ok"]

\* the packed byte of the image descriptor
ImageFlags(frame) ==
    BitOr(IF frame.interlaced THEN 64 ELSE 0,
          IF frame.palette # None
          THEN BitOr(128, flag_size(Len(frame.palette[1]) \div 3))
          ELSE 0)

\* write_frame from the palette match on
FramePalette(e, frame) ==
    IF frame.palette # None
    THEN IF Len(frame.palette[1]) \div 3 > MAX_COLORS THEN InvalidInput(e, TooManyColors)
         ELSE write_color_table(EncWrite(e, <<ImageFlags(frame)>>), frame.palette[1])
    ELSE IF ~e.global_palette THEN InvalidInput(e, NoPaletteGiven)
         ELSE EncWrite(e, <<ImageFlags(frame)>>)

\* the end of write_frame: the image data when all before it returned Ok
FrameData(e, frame) ==
    IF e.res = "Ok"
    THEN [write_image_block(e, frame.buffer) EXCEPT !.frames = Append(@, frame)]
    ELSE e

\* Encoder::write_frame
write_frame(e, frame) ==
    FrameData(
        FramePalette(
            EncWrite(write_extension(e, new_control_ext(frame.delay, frame.dispose,
                                                        frame.needs_user_input,
                                                        frame.transparent)),
                     <<44>> \o WriteLe16(frame.left) \o WriteLe16(frame.top)
                       \o WriteLe16(frame.width) \o WriteLe16(frame.height)),
            frame),
        frame)

------------------------------------------------------------------------------
(* The byte streams the caller feeds.  A family names the kind of stream:    *)
(* "gif" streams of whole blocks, "header" streams that vary the signature,  *)
(* "frame" streams that vary the screen and frame geometry.                  *)

LE16(v) == <<v % 256, v \div 256>>

Sig87a == <<71, 73, 70, 56, 55, 97>>

Sig89a == <<71, 73, 70, 56, 57, 97>>

\* logical screen descriptor, with a two-colour global table when flags >= 128
Screen(w, h, flags) ==
    LE16(w) \o LE16(h) \o <<flags, 0, 0>> \o (IF flags >= 128 THEN <<1, 2, 3, 4, 5, 6>> ELSE <<>>)

ControlExt(flags, delay, trns) == <<33, 249, 4, flags>> \o LE16(delay) \o <<trns, 0>>

Image(l, t, w, h, flags, pal, mcs, data) ==
    <<44>> \o LE16(l) \o LE16(t) \o LE16(w) \o LE16(h) \o <<flags>> \o pal \o <<mcs>> \o data \o <<0>>

\* well-formed blocks; image data ends with the end code of its last sub-block
GoodBlocks ==
    { ControlExt(5, 258, 7),
      <<33, 254, 2, 7, 8, 1, 9, 0>>,
      Image(0, 0, 1, 1, 0, <<>>, 2, <<2, 4, 1>>),
      Image(1, 0, 1, 2, 128, <<9, 9, 9, 8, 8, 8>>, 2, <<1, 2, 2, 8, 1>>) }

\* blocks the decoder may reject or misread
OddBlocks ==
    { <<33, 249, 3, 0, 0, 0, 0>>,
      <<33, 119, 1, 5, 0>>,
      <<80, 1, 5, 0>>,
      <<33, 254, 1, 7, 0, 80, 1, 5, 0>>,
      Image(0, 0, 1, 1, 0, <<>>, 12, <<1, 1>>),
      Image(2, 2, 1, 1, 0, <<>>, 2, <<1, 1>>),
      Image(0, 0, 1, 1, 0, <<>>, 2, <<2, 0, 3>>),
      Image(0, 0, 1, 1, 0, <<>>, 2, <<1, 0>>),
      Image(0, 0, 1, 1, 0, <<>>, 2, <<3, 1, 4, 8>>) }

\* signatures tried by the "header" family, each followed by one more byte
HeaderTries ==
    {<<a, b, c, e, f, g, 2>> : a \in {71, 88}, b \in {73, 71}, c \in {70, 88},
                               e \in {56, 57}, f \in {55, 57, 48}, g \in {97, 65}}

\* 16-bit values tried by the "frame" family
Dims == {0, 1, 65535}

Heads(fam) ==
    CASE fam = "gif" -> {Sig87a \o Screen(2, 2, 128)}
      [] fam = "header" -> {h \o <<0, 2, 0, 0, 0, 0>> : h \in HeaderTries}
      [] fam = "frame" -> {Sig89a \o Screen(w, h, 0) : w, h \in Dims \ {0}}

BlocksOf(fam) ==
    CASE fam = "gif" -> GoodBlocks \cup OddBlocks
      [] fam = "header" -> {}
      [] fam = "frame" ->
           {Image(l, t, w, h, 0, <<>>, 2, <<1, 1>>) : l, t, w, h \in Dims}

\* a stream of the family "gif" follows the GIF grammar
IsGood(block) == block \in GoodBlocks

Sinks == {Slice(0), Slice(SliceCap), VecSink, NoSink}

Options(cec, skip, cfc, aub) ==
    [check_for_end_code |-> cec, skip_frame_decoding |-> skip,
     check_frame_consistency |-> cfc, allow_unknown_blocks |-> aub]

\* decoding setups: each sink, with and without the end-code check
DecodeSetups(cfc, aub) ==
    {<<Options(cec, FALSE, cfc, aub), s>> : cec \in BOOLEAN, s \in {Slice(0), Slice(SliceCap)}}
      \cup {<<Options(FALSE, FALSE, cfc, aub), s>> : s \in {VecSink, NoSink}}

\* copying setups: each sink
CopySetups(cfc, aub) == {<<Options(FALSE, TRUE, cfc, aub), s>> : s \in Sinks}

\* the decoders and sinks a family is run with
Setups(fam) ==
    CASE fam = "gif" ->
           DecodeSetups(TRUE, FALSE) \cup DecodeSetups(FALSE, TRUE)
             \cup CopySetups(TRUE, FALSE) \cup CopySetups(FALSE, TRUE)
      [] fam = "header" -> {DefaultOptions} \X {Slice(SliceCap)}
      [] fam = "frame" ->
           {[DefaultOptions EXCEPT !.check_frame_consistency = c] : c \in BOOLEAN}
             \X {Slice(SliceCap)}

\* bytes a caller tries after an error
RetryBytes == {0, 4}

------------------------------------------------------------------------------
(* The caller *)

\* what the caller saw of its last update() call
NoCall == [kind |-> "None", msg |-> "", e |-> "Nothing", empty |-> FALSE]

Called(r, buf) == [kind |-> r.kind, msg |-> r.msg, e |-> r.ev.e, empty |-> buf = <<>>]

\* the events that open or close a block
Delimits(e) == e \in {"BlockStart", "BlockFinished", "DataEnd"}

\* the log holds the events of the block being decoded: it starts again at
\* every event that opens or closes a block
Record(lg, r) ==
    IF r.kind # "Ok" \/ r.ev.e = "Nothing" THEN lg
    ELSE IF Delimits(r.ev.e) THEN <<r.ev>>
    ELSE Append(lg, r.ev)

\* seen holds the bytes consumed since the last such event: after BlockStart, the
\* bytes of the block that follow its tag
Consumed(sn, r, buf) ==
    IF r.kind = "Ok" /\ Delimits(r.ev.e)
    THEN IF r.ev.e = "BlockStart" /\ r.n > 0 THEN <<buf[r.n]>> ELSE <<>>
    ELSE sn \o Take(buf, r.n)

InitWith(fam) ==
    /\ family = fam
    /\ \E su \in Setups(fam) : d = WithOptions(su[1]) /\ sink = su[2]
    /\ stage = "head"
    /\ nblocks = 0
    /\ tail = <<>>
    /\ seen = <<>>
    /\ log = <<>>
    /\ last = NoCall
    /\ idle = 0
    /\ retries = 0
    /\ enc = NoEncoder
    /\ bw = NoBlockWriter

Init == InitWith("gif")

\* the source of the stream hands the caller its next part: the signature and
\* screen descriptor, then blocks, then the trailer
Supply ==
    /\ stage \notin {"end", "oddend"}
    /\ Len(tail) <= 1
    /\ last.kind \in {"None", "Ok"}
    /\ retries = 0
    /\ \/ /\ stage = "head"
          /\ \E h \in Heads(family) : tail' = tail \o h
          /\ stage' = "block"
          /\ nblocks' = nblocks
       \/ /\ stage = "block"
          /\ nblocks < MaxBlocks
          /\ \E b \in BlocksOf(family) :
               /\ tail' = tail \o b
               /\ stage' = IF family = "gif" /\ ~IsGood(b) THEN "odd" ELSE stage
          /\ nblocks' = nblocks + 1
       \/ /\ stage \in {"block", "odd"}
          /\ tail' = Append(tail, 59)
          /\ stage' = IF stage = "odd" THEN "oddend" ELSE "end"
          /\ nblocks' = nblocks
    /\ UNCHANGED <<d, family, seen, sink, log, last, idle, retries, enc, bw>>

\* the slices the caller may pass next: the next k bytes, or all it holds
SlicesOf(t) == {Take(t, k) : k \in (1..MaxChunk) \cup {Len(t)}}

\* whether an update() call made no progress at all
Stalled(dd, r) == r.kind = "Ok" /\ r.n = 0 /\ r.d = dd

\* what the caller keeps of an update() call that returned r
Returned(held, buf, r) ==
    /\ d' = r.d
    /\ tail' = Drop(held, r.n)
    /\ seen' = Consumed(seen, r, buf)
    /\ log' = Record(log, r)
    /\ last' = Called(r, buf)
    /\ idle' = IF buf = <<>> THEN idle
               ELSE IF Stalled(d, r) THEN idle + 1
               ELSE 0

\* one update() call on the slice buf, which is the start of what the caller
\* holds (held); the caller keeps the unconsumed rest
Call(held, buf, mem) == Returned(held, buf, Update(d, buf, sink, mem))

\* update() on the next bytes of the stream
Feed ==
    /\ last.kind # "Panic"
    /\ idle < MaxIdle
    /\ tail # <<>>
    /\ \E buf \in SlicesOf(tail), mem \in BOOLEAN : Call(tail, buf, mem)
    /\ UNCHANGED <<family, stage, nblocks, sink, retries, enc, bw>>

\* update() on an empty slice
FeedEmpty ==
    /\ last.kind # "Panic"
    /\ Call(tail, <<>>, TRUE)
    /\ UNCHANGED <<family, stage, nblocks, sink, retries, enc, bw>>

\* after an error the caller puts another byte in place of the next one and calls again
Retry ==
    /\ last.kind \in {"Format", "Io"}
    /\ retries < MaxRetry
    /\ tail # <<>>
    /\ \E b \in RetryBytes : Call(<<b>> \o Tail(tail), <<b>>, TRUE)
    /\ retries' = retries + 1
    /\ UNCHANGED <<family, stage, nblocks, sink, enc, bw>>

Next == Supply \/ Feed \/ FeedEmpty \/ Retry

Spec == Init /\ [][Next]_vars

\* streams that vary the six signature bytes
SpecHeader == InitWith("header") /\ [][Next]_vars

\* streams that vary the screen size and the frame rectangle
SpecFrame == InitWith("frame") /\ [][Next]_vars

------------------------------------------------------------------------------
(* The caller of the encoder *)

\* calls made on one encoder
MaxWrites == 2

\* length of the buffer the encoder's output is decoded into
OutLen == 16

\* the decoder's variables, which the encoder leaves alone
decoderVars == <<d, family, stage, nblocks, tail, seen, sink, log, last, idle, retries>>

\* a palette of n colours, none of its bytes zero
PaletteOf(n) == [i \in 1..(3 * n) |-> 1 + (i % 255)]

\* a Frame with its pixel buffer
WithBuffer(f, buffer) ==
    [x \in DOMAIN f \cup {"buffer"} |-> IF x = "buffer" THEN buffer ELSE f[x]]

\* the frame of one pixel
BaseFrame == WithBuffer([DefaultFrame EXCEPT !.width = 1, !.height = 1], <<0>>)

\* a frame that differs from the default in every field
FullFrame ==
    WithBuffer([left |-> 1, top |-> 513, width |-> 2, height |-> 2, delay |-> 258,
                dispose |-> "Previous", needs_user_input |-> TRUE, transparent |-> Some(7),
                interlaced |-> TRUE, palette |-> Some(PaletteOf(3))],
               <<0, 1, 2, 1>>)

\* pixel buffers as long as one sub-block and one byte longer
LongBuffers == {[i \in 1..n |-> i % 4] : n \in {BUF_LEN - 1, BUF_LEN}}

\* the frames a caller writes: the frame of one pixel, changed in one field
Frames ==
    {BaseFrame, FullFrame}
      \cup {[BaseFrame EXCEPT !.dispose = m] : m \in {"Any", "Background", "Previous"}}
      \cup {[BaseFrame EXCEPT !.transparent = Some(t)] : t \in {0, 7}}
      \cup {[BaseFrame EXCEPT !.palette = Some(PaletteOf(n))] : n \in {0, 2, 257}}
      \cup {[BaseFrame EXCEPT !.buffer = <<>>, !.width = 0],
            [BaseFrame EXCEPT !.delay = 65535, !.left = 65535],
            [BaseFrame EXCEPT !.needs_user_input = TRUE]}
      \cup {[BaseFrame EXCEPT !.buffer = b, !.width = Len(b)] : b \in LongBuffers}

\* the global palettes a caller passes: none, two colours, too many
GlobalPalettes == {<<>>, <<0, 0, 0, 255, 255, 255>>, PaletteOf(257)}

\* the extensions a caller writes
Extensions == {Repetitions(TRUE, 0), Repetitions(TRUE, 3), Repetitions(FALSE, 0),
               Control(5, 258, 7)}

\* payloads of raw extensions: none, an empty block, two blocks, a block longer
\* than a sub-block
RawData == {<<>>, <<<<>>>>, <<<<7, 8>>, <<9>>>>, <<PaletteOf(86)>>}

InitEncoder ==
    /\ family = "encoder"
    /\ d = WithOptions(DefaultOptions)
    /\ sink = Slice(OutLen)
    /\ stage = "head"
    /\ nblocks = 0
    /\ tail = <<>>
    /\ seen = <<>>
    /\ log = <<>>
    /\ last = NoCall
    /\ idle = 0
    /\ retries = 0
    /\ enc = NoEncoder
    /\ bw = NoBlockWriter

\* the encoder after one more call
AfterCall(e) ==
    [e EXCEPT !.calls = @ + 1, !.errors = IF e.res = "Ok" THEN @ ELSE @ + 1]

\* Encoder::new
New ==
    /\ enc.stage = "none"
    /\ \E width, height \in {1, 513}, palette \in GlobalPalettes :
           enc' = NewEncoder(width, height, palette)
    /\ UNCHANGED <<decoderVars, bw>>

\* Encoder::write_frame
WriteFrame ==
    /\ enc.stage = "open"
    /\ enc.calls < MaxWrites
    /\ \E frame \in Frames : enc' = AfterCall(write_frame(enc, frame))
    /\ UNCHANGED <<decoderVars, bw>>

\* Encoder::write_extension
WriteExtension ==
    /\ enc.stage = "open"
    /\ enc.calls < MaxWrites
    /\ \E extension \in Extensions : enc' = AfterCall(write_extension(enc, extension))
    /\ UNCHANGED <<decoderVars, bw>>

\* Encoder::write_raw_extension
WriteRawExtension ==
    /\ enc.stage = "open"
    /\ enc.calls < MaxWrites
    /\ \E func \in {254, 255}, data \in RawData :
           enc' = AfterCall(write_raw_extension(enc, func, data))
    /\ UNCHANGED <<decoderVars, bw>>

\* the encoder is dropped
Release ==
    /\ enc.stage = "open"
    /\ enc' = DropEncoder(enc, "released")
    /\ UNCHANGED <<decoderVars, bw>>

NextEncoder == New \/ WriteFrame \/ WriteExtension \/ WriteRawExtension \/ Release

\* an encoder is made, written to and released
SpecEncoder == InitEncoder /\ [][NextEncoder]_vars

\* palettes of every number of colours, and some with one byte more
SizedPalettes ==
    {PaletteOf(n) : n \in 0..(MAX_COLORS + 1)}
      \cup {Append(PaletteOf(n), 9) : n \in {0, 2, 3, MAX_COLORS}}

\* frames with a local palette of every size, and frames without local palette
\* whose one pixel has every value
SizedFrames ==
    {[BaseFrame EXCEPT !.palette = Some(p)] : p \in SizedPalettes}
      \cup {[BaseFrame EXCEPT !.buffer = <<m>>] : m \in 0..255}
      \cup {[BaseFrame EXCEPT !.buffer = <<>>, !.width = 0]}

\* Encoder::new with a global palette of any size
NewSized ==
    /\ enc.stage = "none"
    /\ \E palette \in SizedPalettes : enc' = NewEncoder(1, 1, palette)
    /\ UNCHANGED <<decoderVars, bw>>

\* Encoder::write_frame as the first call on an encoder, with a palette of any size
\* or a pixel of any value
FrameSized ==
    /\ enc.stage = "open"
    /\ enc.calls = 0
    /\ enc.given \in GlobalPalettes
    /\ \E frame \in SizedFrames : enc' = AfterCall(write_frame(enc, frame))
    /\ UNCHANGED <<decoderVars, bw>>

NextSized == NewSized \/ FrameSized \/ Release

\* colour tables of every size and pixel buffers of every maximum are written
SpecSized == InitEncoder /\ [][NextSized]_vars

------------------------------------------------------------------------------
(* The caller of a BlockWriter *)

\* bytes a caller delivers to one block writer before it stops writing
MaxData == 520

\* the lengths of the slices a caller passes to write
WriteLens == {0, 1, 2, 127, 254, 255, 256, 300}

\* the caller's data: the byte at position i
DataByte(i) == i % 251

\* the len bytes of the caller's data that follow the first done ones
DataFrom(done, len) == [i \in 1..len |-> DataByte(done + i)]

\* the block writer after a write call that returned r for the slice buf
Written(buf, r) ==
    UsedBlockWriter("open", r.bw, r.bw.w, bw.sent \o Take(buf, r.n))

\* BlockWriter::new
BwNew ==
    /\ bw.stage = "none"
    /\ enc.stage = "none"
    /\ bw' = UsedBlockWriter("open", NewBlockWriter(<<>>), <<>>, <<>>)
    /\ UNCHANGED <<decoderVars, enc>>

\* one write call: the caller passes the bytes that follow those reported as written
BwWrite ==
    /\ bw.stage = "open"
    /\ Len(bw.sent) < MaxData
    /\ \E len \in WriteLens :
           bw' = Written(DataFrom(Len(bw.sent), len),
                         BlockWrite(bw.writer, DataFrom(Len(bw.sent), len)))
    /\ UNCHANGED <<decoderVars, enc>>

\* the block writer is dropped
BwDrop ==
    /\ bw.stage = "open"
    /\ bw' = UsedBlockWriter("released", bw.writer, BlockDrop(bw.writer), bw.sent)
    /\ UNCHANGED <<decoderVars, enc>>

\* payloads of raw extensions with blocks of the lengths around a sub-block's
SizedRawData ==
    {<<DataFrom(0, n)>> : n \in {0, 1, 254, 255, 256, 510, 511}}
      \cup {<<DataFrom(0, n), <<>>, DataFrom(7, k)>> : n \in {0, 255, 256}, k \in {0, 2}}
      \cup {<<>>}

\* pixel buffers whose codes fill up to three sub-blocks
SizedBuffers == {[i \in 1..n |-> i % 4] : n \in {0, 1, 253, 254, 255, 509, 510}}

\* Encoder::new while no block writer is in use
NewAlone == bw.stage = "none" /\ New

\* Encoder::write_raw_extension as the first call on an encoder
RawSized ==
    /\ enc.stage = "open"
    /\ enc.calls = 0
    /\ \E func \in {254, 255}, data \in SizedRawData :
           enc' = AfterCall(write_raw_extension(enc, func, data))
    /\ UNCHANGED <<decoderVars, bw>>

\* Encoder::write_frame as the first call on an encoder, with a pixel buffer of any length
ImageSized ==
    /\ enc.stage = "open"
    /\ enc.calls = 0
    /\ \E b \in SizedBuffers :
           enc' = AfterCall(write_frame(enc, [BaseFrame EXCEPT !.buffer = b, !.width = Len(b)]))
    /\ UNCHANGED <<decoderVars, bw>>

NextBlocks == BwNew \/ BwWrite \/ BwDrop \/ NewAlone \/ RawSized \/ ImageSized

\* a block writer is written to in calls of any length and released; blocks of
\* any length are written as raw extensions and as image data
SpecBlocks == InitEncoder /\ [][NextBlocks]_vars

------------------------------------------------------------------------------
(* A caller that feeds any bytes.  The stream is not built from whole blocks:   *)
(* each update() call gets one or two bytes, each chosen among the bytes that   *)
(* make the arm of the state the decoder is in take each of its branches.       *)

\* longest extension buffer (ext.data) up to which the caller goes on feeding
MaxExt == 6

\* block tags: extension, image, trailer, an unknown one
TagBytes == {33, 44, 59, 80}

\* length bytes: the terminator, a sub-block of one byte
LengthBytes == {0, 1}

\* the bytes tried as the 16-bit value that the state reads
U16Bytes(v, high) ==
    CASE v = "ScreenWidth" \/ v = "ScreenHeight" -> IF high THEN {0} ELSE {2}
      [] v = "Delay" -> IF high THEN {1} ELSE {2}
      [] v = "ImageLeft" -> IF high THEN {0} ELSE {0, 3}
      [] v = "ImageTop" -> {0}
      [] OTHER -> IF high THEN {0} ELSE {1}

\* the bytes tried as the single byte that the state reads
ByteBytes(v) ==
    CASE v = "ControlFlags" -> {5}
      [] v = "TransparentIdx" -> {7}
      [] v = "ImageFlags" -> {0, 128}
      [] v = "CodeSize" -> {2, 12}
      [] OTHER -> {0}

\* the bytes tried as the byte behind a block tag
AfterTag(type_) ==
    CASE BlockFromU8(type_) = "Image" -> U16Bytes("ImageLeft", FALSE)
      [] BlockFromU8(type_) = "Extension" -> {249, 254}
      [] BlockFromU8(type_) = "Trailer" -> {0}
      [] OTHER -> LengthBytes

\* the first byte of the next slice, by the state of the decoder
NextBytes(dd) ==
    LET s == dd.state.s
        n == dd.state.n
    IN CASE s = "Magic" -> IF n < 6 THEN {Sig89a[n + 1]} ELSE {2}
         [] s = "U16" -> U16Bytes(dd.state.v, FALSE)
         [] s = "U16Byte1" -> U16Bytes(dd.state.v, TRUE)
         [] s = "Byte" -> ByteBytes(dd.state.v)
         [] s = "GlobalPalette" \/ s = "LocalPalette" ->
              IF n > 0 THEN {1} ELSE IF s = "GlobalPalette" THEN TagBytes ELSE ByteBytes("CodeSize")
         [] s = "BlockStart" -> AfterTag(n)
         [] s = "BlockEnd" -> TagBytes
         [] s = "ExtensionBlock" -> {0, 4}
         [] s = "SkipBlock" \/ s = "CopySubBlock" -> IF n > 0 THEN {9} ELSE LengthBytes
         [] s = "LzwInit" -> LengthBytes \cup {2}
         [] s = "DecodeSubBlock" -> IF n > 0 THEN {0, 1, 2, 3} ELSE LengthBytes
         [] OTHER -> {0}

\* what may follow the byte b in a slice: nothing, or one more byte, chosen by the
\* state the decoder is in behind b
SecondBytes(dd, snk, b) ==
    {<<>>} \cup {<<c>> : c \in NextBytes(Update(dd, <<b>>, snk, TRUE).d)}

InitBytes ==
    /\ family = "bytes"
    /\ \E cec, skip, cfc, aub \in BOOLEAN, s \in Sinks :
           d = WithOptions(Options(cec, skip, cfc, aub)) /\ sink = s
    /\ stage = "block"
    /\ nblocks = 0
    /\ tail = <<>>
    /\ seen = <<>>
    /\ log = <<>>
    /\ last = NoCall
    /\ idle = 0
    /\ retries = 0
    /\ enc = NoEncoder
    /\ bw = NoBlockWriter

\* what the caller keeps of an update() call on buf that returned r: the decoder
\* and the unconsumed rest of buf
Kept(buf, r) ==
    /\ d' = r.d
    /\ tail' = Drop(buf, r.n)
    /\ last' = Called(r, buf)
    /\ UNCHANGED <<family, stage, nblocks, seen, sink, log, idle, retries, enc, bw>>

\* update() on a slice of new bytes
FeedAny ==
    /\ last.kind # "Panic"
    /\ tail = <<>>
    /\ Len(d.ext.data) <= MaxExt
    /\ \E b \in NextBytes(d), mem \in BOOLEAN :
           \E more \in SecondBytes(d, sink, b) :
               Kept(<<b>> \o more, Update(d, <<b>> \o more, sink, mem))

\* update() on the unconsumed rest of the last slice
FeedRest ==
    /\ last.kind # "Panic"
    /\ tail # <<>>
    /\ \E mem \in BOOLEAN : Kept(tail, Update(d, tail, sink, mem))

NextAny == FeedAny \/ FeedRest

\* a decoder is fed any bytes
SpecBytes == InitBytes /\ [][NextAny]_vars

------------------------------------------------------------------------------
(* Claims *)

\* the stream handed over so far follows the GIF grammar and was not altered
ValidSoFar == family = "gif" /\ stage \in {"head", "block", "end"} /\ retries = 0

\* the caller's loop: update() again and again on the unconsumed rest of buf, until
\* it is used up, an error is returned, the trailer is reported or nothing moves
RECURSIVE Drain(_, _, _)
Drain(dd, buf, evs) ==
    IF buf = <<>> THEN [d |-> dd, evs |-> evs, end |-> "exhausted"]
    ELSE LET r == Update(dd, buf, sink, TRUE)
             e2 == IF r.ev.e = "Nothing" THEN evs ELSE Append(evs, r.ev)
         IN IF r.kind # "Ok" THEN [d |-> r.d, evs |-> evs, end |-> r.msg]
            ELSE IF r.ev.e = "Trailer" \/ Stalled(dd, r)
            THEN [d |-> r.d, evs |-> e2, end |-> "stopped"]
            ELSE Drain(r.d, Drop(buf, r.n), e2)

\* what is held, fed as one slice
FedWhole == Drain(d, tail, <<>>)

\* what is held, fed as its first j bytes and then the rest
FedSplit(j) ==
    LET a == Drain(d, Take(tail, j), <<>>)
    IN IF a.end # "exhausted" THEN a ELSE Drain(a.d, Drop(tail, j), a.evs)

SplitPoints == {j \in 1..MaxChunk : j < Len(tail)}

\* successive LzwDataCopied / BytesDecoded events taken as one, their counts added
RECURSIVE Merged(_)
Merged(evs) ==
    IF Len(evs) < 2 THEN evs
    ELSE LET a == evs[1]
             b == evs[2]
         IN IF a.e = b.e /\ a.e \in {"LzwDataCopied", "BytesDecoded"}
            THEN Merged(<<[a EXCEPT !.x = a.x + b.x]>> \o SubSeq(evs, 3, Len(evs)))
            ELSE <<a>> \o Merged(Tail(evs))

ProbeSlices == SlicesOf(tail) \cup {<<b>> : b \in RetryBytes} \cup {<<>>}

\* C2: a successful update() consumes 0..len bytes and returns Nothing only when
\* it consumed the whole slice
C2_ConsumedAndEvent ==
    \A buf \in ProbeSlices, mem \in BOOLEAN :
        LET r == Update(d, buf, sink, mem)
        IN r.kind = "Ok" =>
             /\ r.n \in 0..Len(buf)
             /\ r.ev.e = "Nothing" => r.n = Len(buf)

\* a call returned an event and left part of its slice unconsumed
C2_Witness ==
    /\ last.kind = "Ok" /\ last.e = "FrameMetadata"
    /\ \E buf \in SlicesOf(tail) :
         LET r == Update(d, buf, sink, TRUE)
         IN r.kind = "Ok" /\ r.ev.e # "Nothing" /\ r.n < Len(buf) /\ r.n > 0

\* C3: in every reachable state update() on an empty slice returns Ok((0, Nothing))
\* and leaves the decoder as it is; no call ends in the "empty buf" error
C3_EmptyInput ==
    /\ \A mem \in BOOLEAN : Update(d, <<>>, sink, mem) = Ok(d, 0, Nothing)
    /\ last.msg # "empty buf"

\* update() was called with an empty slice in the Trailer state
C3_Witness == last.empty /\ last.kind = "Ok" /\ d.state.s = "Trailer"

\* the number of events named e in a log
Count(lg, e) == Cardinality({i \in 1..Len(lg) : lg[i].e = e})

\* the log is that of an image block: BlockStart(Image), then the frame's events
InImage(lg) == lg # <<>> /\ lg[1].e = "BlockStart" /\ BlockFromU8(lg[1].x) = "Image"

\* C4: whatever slice is passed next, a BytesDecoded or LzwDataCopied event it
\* returns comes after the FrameMetadata of the image block being read, a DataEnd
\* comes after exactly one FrameMetadata since the last DataEnd, and BytesDecoded
\* is returned only without skip_frame_decoding, LzwDataCopied only with it
C4_FrameEvents ==
    \A buf \in ProbeSlices, mem \in BOOLEAN :
        LET r == Update(d, buf, sink, mem)
        IN r.kind = "Ok" =>
             /\ r.ev.e \in {"BytesDecoded", "LzwDataCopied", "DataEnd"} =>
                    InImage(log) /\ Count(log, "FrameMetadata") = 1
             /\ r.ev.e = "FrameMetadata" =>
                    /\ InImage(log) /\ Count(log, "FrameMetadata") = 0
                    /\ r.ev.f = r.d.current
             /\ r.ev.e = "BytesDecoded" => ~d.skip_frame_decoding
             /\ r.ev.e = "LzwDataCopied" => d.skip_frame_decoding

\* a frame's data was reported by several events and its DataEnd comes next
C4_Witness ==
    /\ Count(log, "FrameMetadata") = 1
    /\ Count(log, "BytesDecoded") + Count(log, "LzwDataCopied") >= 2
    /\ \E buf \in SlicesOf(tail) : Update(d, buf, sink, TRUE).ev.e = "DataEnd"

\* C5 as stated: whatever slice is passed next, a SubBlockFinished or BlockFinished
\* event it returns comes after the BlockStart of an extension block, with only
\* SubBlockFinished events of the same id in between, and carries that block's
\* label byte as its id
C5_BlockEvents ==
    \A buf \in ProbeSlices :
        LET r == Update(d, buf, sink, TRUE)
        IN (r.kind = "Ok" /\ r.ev.e \in {"SubBlockFinished", "BlockFinished"}) =>
             /\ log # <<>>
             /\ log[1].e = "BlockStart"
             /\ BlockFromU8(log[1].x) = "Extension"
             /\ r.ev.x = seen[1]
             /\ \A i \in 2..Len(log) :
                    log[i].e = "SubBlockFinished" /\ log[i].x = r.ev.x

\* the events in lg are all Trailer events
OnlyTrailers(lg) == \A i \in 1..Len(lg) : lg[i].e = "Trailer"

\* C6 as stated: the Trailer event is returned at most once, the Trailer state is
\* never left, and no event is returned after Trailer
C6_TrailerOnce ==
    /\ Count(log, "Trailer") <= 1
    /\ \A buf \in ProbeSlices :
         LET r == Update(d, buf, sink, TRUE)
         IN /\ d.state.s = "Trailer" => r.d.state.s = "Trailer"
            /\ Count(log, "Trailer") > 0 => r.ev.e = "Nothing"

\* C6 amended: in the Trailer state every update() on a non-empty slice returns
\* Ok((0, Trailer)) and changes nothing, so Trailer is returned once per such
\* call; the state is never left and no event other than Trailer follows Trailer
C6_TrailerTerminal ==
    /\ Count(log, "Trailer") > 0 =>
         /\ d.state.s = "Trailer"
         /\ log[1].e = "BlockStart" /\ BlockFromU8(log[1].x) = "Trailer"
         /\ OnlyTrailers(Tail(log))
    /\ d.state.s = "Trailer" =>
         \A buf \in ProbeSlices \ {<<>>} :
             Update(d, buf, sink, TRUE) = Ok(d, 0, Ev("Trailer", 0, <<>>, None))

\* the Trailer event was returned by two calls
C6_Witness == Count(log, "Trailer") >= 2 /\ d.state.s = "Trailer"

\* the slices tried after an error: every single byte, and those the caller holds
HaltProbes == {<<b>> : b \in 0..255} \cup SlicesOf(tail)

\* the messages of the format errors of the decoder
FormatMessages ==
    {"malformed GIF header", "unsupported GIF version",
     "control extension has wrong length", "unknown block type encountered",
     "unknown extention block encountered", "frame descriptor is out-of-bounds",
     "invalid minimal code size", "expected block terminator not found"}

\* a failing update() leaves the FSM in the state its failing step started in
StateKept ==
    \A buf \in ProbeSlices :
        LET r == Update(d, buf, sink, TRUE)
        IN r.kind = "Format" => r.d.state = r.pre /\ r.msg \in FormatMessages

\* C7 as stated: a Format error leaves the FSM state as it was before the failing
\* step, and after it update() on any non-empty slice returns a Format error again
C7_FormatErrorsHalt ==
    /\ StateKept
    /\ last.kind = "Format" =>
         \A buf \in HaltProbes, mem \in BOOLEAN : Update(d, buf, sink, mem).kind = "Format"

\* C7 amended: a Format error leaves the FSM state as it was before the failing
\* step; after it update() on any non-empty slice returns the same Format error
\* again, except after "control extension has wrong length", where the call fails
\* again unless the slice starts with the byte 4, which is accepted as the length
C7_FormatErrorsHaltButLength ==
    /\ StateKept
    /\ last.kind = "Format" =>
         \A buf \in HaltProbes, mem \in BOOLEAN :
             LET r == Update(d, buf, sink, mem)
             IN IF last.msg = "control extension has wrong length" /\ buf[1] = 4
                THEN r.kind = "Ok" /\ r.pre # d.state
                ELSE r.kind = "Format" /\ r.msg = last.msg /\ r.d.state = d.state

\* after the wrong-length error the caller passed the byte 4 and decoding went on
C7_Witness ==
    /\ retries = 1 /\ last.kind = "Ok"
    /\ d.state = Byte("ControlFlags", 0)
    /\ d.ext.id = 249

\* the messages of the errors decode_bytes raises on the compressed data
LzwMessages == {"invalid code in LZW stream", "No end code in lzw stream"}

\* C8 as stated: an invalid LZW code and a missing end code are returned as Format
\* errors, not as Io errors
C8_ErrorClasses ==
    \A buf \in ProbeSlices, mem \in BOOLEAN :
        LET r == Update(d, buf, sink, mem)
        IN r.msg \in LzwMessages => r.kind = "Format"

\* the 16-bit little-endian value at seen[i], seen[i + 1]
U16At(i) == seen[i] + 256 * seen[i + 1]

\* the stream is still at its signature and screen descriptor
InHeader == log = <<>> \/ ~Delimits(log[1].e)

\* the first six bytes of the stream, once consumed
Signature == SubSeq(seen, 1, 6)

GifPrefix == SubSeq(Signature, 1, 3) = <<71, 73, 70>>

\* the version the last three signature bytes name, or "None"
SuffixVersion ==
    IF SubSeq(Signature, 4, 6) = <<56, 55, 97>> THEN "V87a"
    ELSE IF SubSeq(Signature, 4, 6) = <<56, 57, 97>> THEN "V89a"
    ELSE "None"

\* C9: until six bytes are consumed version() is V87a and no event is returned;
\* the call that meets the seventh byte fails with "malformed GIF header" when the
\* first three bytes are not "GIF", with "unsupported GIF version" when they are
\* and the next three are neither "87a" nor "89a", and otherwise succeeds with
\* version() the one the suffix names; the errors arise nowhere else
C9_HeaderValidation ==
    /\ (d.state.s = "Magic" /\ retries = 0) =>
         /\ d.version = "V87a" /\ log = <<>> /\ last.e = "Nothing"
         /\ Len(seen) = d.state.n /\ d.state.n <= 6
         /\ \A buf \in SlicesOf(tail) :
              LET r == Update(d, buf, sink, TRUE)
                  sig == SubSeq(seen \o buf, 1, 6)
              IN IF Len(seen \o buf) < 7
                 THEN r = Ok(r.d, Len(buf), Nothing) /\ r.d.state.s = "Magic"
                           /\ r.d.version = "V87a"
                 ELSE IF SubSeq(sig, 1, 3) # <<71, 73, 70>>
                 THEN r.kind = "Format" /\ r.msg = "malformed GIF header"
                           /\ r.n = 6 - Len(seen)
                 ELSE IF SubSeq(sig, 4, 6) \notin {<<56, 55, 97>>, <<56, 57, 97>>}
                 THEN r.kind = "Format" /\ r.msg = "unsupported GIF version"
                           /\ r.n = 6 - Len(seen)
                 ELSE r.kind = "Ok" /\ r.d.state.s # "Magic"
    /\ last.msg = "malformed GIF header" =>
         d.state.s = "Magic" /\ Len(seen) = 6 /\ ~GifPrefix
    /\ last.msg = "unsupported GIF version" =>
         d.state.s = "Magic" /\ Len(seen) = 6 /\ GifPrefix /\ SuffixVersion = "None"
    /\ (InHeader /\ Len(seen) >= 7) =>
         GifPrefix /\ SuffixVersion # "None" /\ d.version = SuffixVersion

\* a stream whose signature starts with "GIF" and names no known version was
\* rejected at its seventh byte
C9_Witness ==
    /\ last.kind = "Format" /\ last.msg = "unsupported GIF version"
    /\ Len(seen) = 6 /\ GifPrefix /\ tail # <<>>

\* the frame rectangle as the image descriptor in the stream gives it
LeftInStream == U16At(1)

TopInStream == U16At(3)

WidthInStream == U16At(5)

HeightInStream == U16At(7)

\* C10: at the image flags byte the frame holds the 16-bit values of the stream, and
\* reading the byte fails with "frame descriptor is out-of-bounds" exactly when
\* check_frame_consistency is set and left + width > screen width or
\* top + height > screen height, the sums taken as unbounded integers
C10_FrameConsistency ==
    (d.state = Byte("ImageFlags", 0) /\ retries = 0) =>
        /\ d.current # None /\ Len(seen) = 8
        /\ LET frame == d.current[1]
           IN /\ frame.left = LeftInStream /\ frame.top = TopInStream
              /\ frame.width = WidthInStream /\ frame.height = HeightInStream
              /\ \A b \in 0..255, mem \in BOOLEAN :
                   LET r == Update(d, <<b>>, sink, mem)
                   IN (r.kind = "Format" /\ r.msg = "frame descriptor is out-of-bounds")
                        <=> /\ d.check_frame_consistency
                            /\ \/ LeftInStream + WidthInStream > d.width
                               \/ TopInStream + HeightInStream > d.height

\* a frame whose left + width passes 65535 was rejected
C10_Witness ==
    /\ d.state = Byte("ImageFlags", 0) /\ retries = 0
    /\ last.msg = "frame descriptor is out-of-bounds"
    /\ LeftInStream + WidthInStream >= 65536
    /\ TopInStream + HeightInStream <= d.height

\* tags that open no block of the format
UnknownTags == {0, 80, 255}

\* blocks with an unknown tag: one sub-block, two sub-blocks, no sub-block
UnknownBlocks == {<<80, 1, 5, 0>>, <<80, 2, 5, 6, 1, 7, 0>>, <<80, 0>>}

\* what may follow a block: a well-formed extension or image, or the trailer
Followers == GoodBlocks \cup {<<59>>}

\* the decoder is between two blocks
AtBlockBoundary == d.state = BlockEnd(0)

\* the decoder skips the block u, is between two blocks again and decodes f as it
\* does without u: same events, same end, same decoder but for the extension buffer
SkippedThen(u, f) ==
    LET a == Drain(d, u, <<>>)
        with == Drain(a.d, f, <<>>)
        without == Drain(d, f, <<>>)
    IN /\ a.end = "exhausted"
       /\ a.d.state = BlockEnd(0)
       /\ with.evs = without.evs
       /\ with.end = without.end
       /\ [with.d EXCEPT !.ext = without.d.ext] = without.d

\* C11 (first half): between two blocks, a decoder that does not allow unknown
\* blocks answers an unknown tag with the Format error "unknown block type encountered"
C11_UnknownTagRejected ==
    (AtBlockBoundary /\ ~d.allow_unknown_blocks) =>
        \A t \in UnknownTags, b \in RetryBytes :
            LET r == Update(d, <<t, b>>, sink, TRUE)
            IN r.kind = "Format" /\ r.msg = "unknown block type encountered"

\* C11: between two blocks, a decoder that allows unknown blocks skips every block
\* with an unknown tag up to and including its zero terminator, and decodes what
\* follows as if the unknown block were absent
C11_UnknownBlocks ==
    /\ C11_UnknownTagRejected
    /\ (AtBlockBoundary /\ d.allow_unknown_blocks) =>
           \A u \in UnknownBlocks, f \in Followers : SkippedThen(u, f)

\* C12: whatever the decoder options, a frame whose min-code-size byte is greater
\* than 11 is answered at LzwInit with the Format error "invalid minimal code
\* size", and no FrameMetadata event is returned for it
C12_MinCodeSizeRejected ==
    (d.state.s = "LzwInit" /\ d.state.n > 11) =>
        \A buf \in ProbeSlices \ {<<>>} :
            LET r == Update(d, buf, sink, TRUE)
            IN /\ r.kind = "Format"
               /\ r.msg = "invalid minimal code size"
               /\ r.ev.e # "FrameMetadata"

\* the packed byte of the screen descriptor in the encoder's output
PackedInOutput == enc.w[11]

\* C13: an encoder made with an empty global palette answers write_frame of a
\* frame without local palette with the InvalidInput error "The GIF format
\* requires a color palette but none was given.", and the top bit of the packed
\* byte of the screen descriptor is set exactly when a global palette was given
C13_PaletteInvariant ==
    enc.stage = "open" =>
        /\ enc.given = <<>> =>
               \A frame \in Frames :
                   frame.palette = None => write_frame(enc, frame).res = NoPaletteGiven
        /\ PackedInOutput >= 128 <=> enc.given # <<>>

RECURSIVE SubBlocks(_)
\* s is a chain of data sub-blocks: each a length byte in 1..255 and that many bytes
SubBlocks(s) ==
    \/ s = <<>>
    \/ /\ s[1] \in 1..255
       /\ Len(s) > s[1]
       /\ SubBlocks(Drop(s, s[1] + 1))

\* the encoder was made for a 1x1 screen with the palette 00 00 00 FF FF FF, one
\* call wrote a 1x1 frame at (0,0) without local palette, delay or transparency,
\* with the pixel 0, and the encoder was released
EmptyImage ==
    /\ enc.stage = "released"
    /\ enc.width = 1 /\ enc.height = 1
    /\ enc.given = <<0, 0, 0, 255, 255, 255>>
    /\ enc.calls = 1
    /\ Len(enc.frames) = 1
    /\ enc.frames[1].left = 0 /\ enc.frames[1].top = 0
    /\ enc.frames[1].width = 1 /\ enc.frames[1].height = 1
    /\ enc.frames[1].palette = None
    /\ enc.frames[1].delay = 0
    /\ enc.frames[1].transparent = None
    /\ ~enc.frames[1].interlaced
    /\ enc.frames[1].buffer = <<0>>

\* the output up to the min-code-size byte, for a packed byte of the screen
\* descriptor and a flags byte of the control extension
EmptyImageHead(packed, control) ==
    <<71, 73, 70, 56, 57, 97, 1, 0, 1, 0, packed, 0, 0, 0, 0, 0, 255, 255, 255,
      33, 249, 4, control, 0, 0, 0, 0,
      44, 0, 0, 0, 0, 1, 0, 1, 0, 0, 2>>

\* the output is head, then sub-blocks, then the terminator and the trailer
WrittenAs(head) ==
    /\ Len(enc.w) > Len(head) + 2
    /\ Take(enc.w, Len(head)) = head
    /\ SubBlocks(SubSeq(enc.w, Len(head) + 1, Len(enc.w) - 2))
    /\ SubSeq(enc.w, Len(enc.w) - 1, Len(enc.w)) = <<0, 59>>

\* C14 as stated: the empty-image scenario writes the packed byte F0 and the
\* control extension 21 F9 04 00 00 00 00 00
C14_EmptyImage == EmptyImage => WrittenAs(EmptyImageHead(240, 0))

\* C14 amended: the empty-image scenario writes the packed byte 80, and the flags
\* byte of the control extension holds the frame's disposal method and user-input
\* flag (00 for disposal Any, 04 for Keep); the other bytes are as stated
C14_EmptyImagePacked80 ==
    EmptyImage =>
        WrittenAs(EmptyImageHead(128,
                                 4 * DisposalToU8(enc.frames[1].dispose)
                                   + (IF enc.frames[1].needs_user_input THEN 2 ELSE 0)))

\* the scenario was run with a frame of disposal Any, whose control extension is
\* the one stated, and the packed byte written is 80
C14_Witness ==
    /\ EmptyImage
    /\ enc.frames[1].dispose = "Any" /\ ~enc.frames[1].needs_user_input
    /\ WrittenAs(EmptyImageHead(128, 0))

\* what a decoder with default options reads from the encoder's output
Decoded == Drain(WithOptions(DefaultOptions), enc.w, <<>>)

\* the number of bytes of the table that a packed flags byte announces
Announced(flags) == 3 * Pow2((flags % 8) + 1)

\* table is palette cut to whole colours, followed by zero bytes only
IsPadded(table, palette) ==
    /\ Len(table) >= 3 * (Len(palette) \div 3)
    /\ Take(table, 3 * (Len(palette) \div 3)) = Take(palette, 3 * (Len(palette) \div 3))
    /\ \A i \in (3 * (Len(palette) \div 3) + 1)..Len(table) : table[i] = 0

\* where the global table ends in the output: it follows the 13 bytes of the
\* signature and the screen descriptor
GlobalTableEnd == 13 + Announced(enc.w[11])

\* where the packed byte of the first image descriptor is: behind the global
\* table, the 8 bytes of the control extension, the separator and four u16
LocalFlagsAt == GlobalTableEnd + 18

LocalTableEnd == LocalFlagsAt + Announced(enc.w[LocalFlagsAt])

\* the decoder has read the trailer as a block tag
AtTrailer(dd) == dd.state = BlockStart(59) \/ dd.state = Trailer

\* the decoder reports the table in an event named e and reads what follows the
\* table as blocks, up to the trailer
DecoderReads(e, table) ==
    /\ AtTrailer(Decoded.d)
    /\ \E i \in 1..Len(Decoded.evs) :
           /\ Decoded.evs[i].e = e
           /\ IF e = "GlobalPalette" THEN Decoded.evs[i].data = table
              ELSE Decoded.evs[i].f[1].palette = Some(table)

\* only a global table was written, and the encoder was released
GlobalTableWritten == enc.stage = "released" /\ enc.calls = 0

\* a frame with a local palette was written, and the encoder was released
LocalTableWritten ==
    /\ enc.stage = "released" /\ enc.calls = 1 /\ Len(enc.frames) = 1
    /\ enc.frames[1].palette # None

\* C15: a table of 0..=256 colours is written as 3*2^(size+1) bytes, size being
\* the low three bits of the packed byte written for it: the colours of the
\* palette, then zeros; the decoder reads exactly these bytes as the table; a
\* palette of more than 256 colours is rejected with "Too many colors"
C15_TableSize ==
    /\ GlobalTableWritten =>
           /\ Len(enc.given) \div 3 <= MAX_COLORS
           /\ Len(enc.w) = GlobalTableEnd + 1
           /\ IsPadded(SubSeq(enc.w, 14, GlobalTableEnd), enc.given)
           /\ DecoderReads("GlobalPalette", SubSeq(enc.w, 14, GlobalTableEnd))
    /\ LocalTableWritten =>
           /\ Len(enc.frames[1].palette[1]) \div 3 <= MAX_COLORS
           /\ Len(enc.w) > LocalTableEnd
           /\ enc.w[LocalFlagsAt] >= 128
           /\ IsPadded(SubSeq(enc.w, LocalFlagsAt + 1, LocalTableEnd), enc.frames[1].palette[1])
           /\ SubBlocks(SubSeq(enc.w, LocalTableEnd + 2, Len(enc.w) - 2))
           /\ SubSeq(enc.w, Len(enc.w) - 1, Len(enc.w)) = <<0, 59>>
           /\ DecoderReads("FrameMetadata", SubSeq(enc.w, LocalFlagsAt + 1, LocalTableEnd))
    /\ enc.stage = "failed" => enc.res = TooManyColors
    /\ (enc.stage # "none" /\ Len(enc.given) \div 3 > MAX_COLORS) =>
           enc.stage = "failed" /\ enc.res = TooManyColors
    /\ enc.stage = "open" =>
           \A frame \in SizedFrames :
               frame.palette # None =>
                   (write_frame(enc, frame).res = TooManyColors
                      <=> Len(frame.palette[1]) \div 3 > MAX_COLORS)

\* a local palette of 7 colours was written as a table of 8, and of 256 as 256
C15_Witness ==
    /\ LocalTableWritten
    /\ Len(enc.frames[1].palette[1]) = 21
    /\ LocalTableEnd - LocalFlagsAt = 24
    /\ DecoderReads("FrameMetadata", SubSeq(enc.w, LocalFlagsAt + 1, LocalTableEnd))

\* the least k with 2^k >= n
CeilLog2(n) == CHOOSE k \in 0..16 : Pow2(k) >= n /\ (k = 0 \/ Pow2(k - 1) < n)

Max2(a, b) == IF a >= b THEN a ELSE b

\* the first call on the encoder wrote a frame
FrameWritten == enc.stage \in {"open", "released"} /\ enc.calls = 1 /\ Len(enc.frames) = 1

\* where the min-code-size byte of that frame is: behind the packed byte of the
\* image descriptor and the local table, if there is one
MinCodeSizeAt == IF enc.frames[1].palette = None THEN LocalFlagsAt + 1 ELSE LocalTableEnd + 1

\* the greatest pixel value of that frame, 0 for an empty buffer
MaxIndex == MaxOf(enc.frames[1].buffer)

\* C16 as stated: the min-code-size byte is max(2, ceil(log2(m+1)) + 1) for the
\* greatest pixel value m, and never less than 2
C16_MinCodeSize ==
    FrameWritten =>
        /\ enc.w[MinCodeSizeAt] = Max2(2, CeilLog2(MaxIndex + 1) + 1)
        /\ enc.w[MinCodeSizeAt] >= 2

\* C16 amended: the min-code-size byte is max(2, ceil(log2(m+1))) for the
\* greatest pixel value m, and never less than 2
C16_MinCodeSizeBits ==
    FrameWritten =>
        /\ enc.w[MinCodeSizeAt] = Max2(2, CeilLog2(MaxIndex + 1))
        /\ enc.w[MinCodeSizeAt] >= 2

\* a frame whose greatest pixel value is 2 was written with the min-code-size 2,
\* where the formula as stated gives 3
C16_Witness ==
    /\ FrameWritten
    /\ MaxIndex = 2
    /\ enc.w[MinCodeSizeAt] = 2
    /\ Max2(2, CeilLog2(MaxIndex + 1) + 1) = 3

\* the FrameMetadata events among evs
FrameEvents(evs) == SelectSeq(evs, LAMBDA x : x.e = "FrameMetadata")

RECURSIVE PixelCounts(_, _)
\* the number of pixels decoded for each frame: the counts of the BytesDecoded
\* events behind each FrameMetadata event; counts holds those of earlier frames
PixelCounts(evs, counts) ==
    IF evs = <<>> THEN counts
    ELSE IF Head(evs).e = "FrameMetadata" THEN PixelCounts(Tail(evs), Append(counts, 0))
    ELSE IF Head(evs).e = "BytesDecoded" /\ counts # <<>>
    THEN PixelCounts(Tail(evs), [counts EXCEPT ![Len(counts)] = @ + Head(evs).x])
    ELSE PixelCounts(Tail(evs), counts)

\* the decoded frame g has the values of the written frame f
SameFrame(f, g) ==
    /\ g.left = f.left /\ g.top = f.top /\ g.width = f.width /\ g.height = f.height
    /\ g.delay = f.delay /\ g.dispose = f.dispose
    /\ g.needs_user_input = f.needs_user_input
    /\ g.transparent = f.transparent

\* the decoder returns one FrameMetadata event for each frame written, with the
\* values of that frame, and decodes as many pixels as its buffer holds
RoundTrip ==
    /\ Len(FrameEvents(Decoded.evs)) = Len(enc.frames)
    /\ \A i \in 1..Len(enc.frames) :
           /\ SameFrame(enc.frames[i], FrameEvents(Decoded.evs)[i].f[1])
           /\ PixelCounts(Decoded.evs, <<>>)[i] = Len(enc.frames[i].buffer)

\* C19: when every call on the encoder succeeded and the encoder was released,
\* the decoder returns for each frame written a FrameMetadata event with the
\* frame's left, top, width, height, delay, dispose, needs_user_input and
\* transparent values, and decodes the pixels of its buffer
C19_RoundTrip == (enc.stage = "released" /\ enc.errors = 0) => RoundTrip

RECURSIVE AfterSubBlocks(_)
\* what follows a chain of sub-blocks and its zero terminator
AfterSubBlocks(s) ==
    IF s = <<>> THEN <<>>
    ELSE IF s[1] = 0 THEN Tail(s)
    ELSE AfterSubBlocks(Drop(s, s[1] + 1))

\* what follows the image that s starts with: its descriptor of 10 bytes, its
\* local table, its min-code-size byte and its sub-blocks
AfterImage(s) ==
    AfterSubBlocks(Drop(s, 11 + (IF Len(s) >= 10 /\ s[10] >= 128 THEN Announced(s[10]) ELSE 0)))

RECURSIVE Tags(_)
\* the bytes of s that stand at a block boundary, by the grammar of the format;
\* -1 for a byte that opens no block
Tags(s) ==
    IF s = <<>> THEN <<>>
    ELSE IF s[1] = 59 THEN <<59>> \o Tags(Tail(s))
    ELSE IF s[1] = 33 THEN <<33>> \o Tags(AfterSubBlocks(Drop(s, 2)))
    ELSE IF s[1] = 44 THEN <<44>> \o Tags(AfterImage(s))
    ELSE <<-1>>

\* the block tags of the encoder's output, which starts with the signature, the
\* screen descriptor and the global table
OutputTags == Tags(Drop(enc.w, GlobalTableEnd))

\* how often x occurs in s
Occurrences(s, x) == Cardinality({i \in 1..Len(s) : s[i] = x})

\* C20: when every call on the encoder succeeded, its output holds no trailer
\* byte at a block boundary before the release, and exactly one after it, which
\* is the last byte of the output
C20_TrailerOnRelease ==
    /\ (enc.stage = "open" /\ enc.errors = 0) =>
           /\ Occurrences(OutputTags, 59) = 0
           /\ Occurrences(OutputTags, -1) = 0
    /\ (enc.stage = "released" /\ enc.errors = 0) =>
           /\ Occurrences(OutputTags, 59) = 1
           /\ Occurrences(OutputTags, -1) = 0
           /\ OutputTags[Len(OutputTags)] = 59
           /\ enc.w[Len(enc.w)] = 59

\* an encoder was released after two calls that wrote a frame and data with the
\* byte 3B in it: the output holds that byte more than once, the trailer once
C20_Witness ==
    /\ enc.stage = "released" /\ enc.errors = 0 /\ enc.calls = 2
    /\ Len(enc.frames) = 1
    /\ Occurrences(enc.w, 59) > 1
    /\ Occurrences(OutputTags, 59) = 1

RECURSIVE Lengths(_)
\* the length bytes of the sub-blocks that s consists of; -1 where s ends before
\* the end of a sub-block
Lengths(s) ==
    IF s = <<>> THEN <<>>
    ELSE IF Len(s) < s[1] + 1 THEN <<-1>>
    ELSE <<s[1]>> \o Lengths(Drop(s, s[1] + 1))

RECURSIVE Payload(_)
\* the data bytes of the sub-blocks that s consists of
Payload(s) ==
    IF s = <<>> THEN <<>>
    ELSE SubSeq(s, 2, Min(Len(s), s[1] + 1)) \o Payload(Drop(s, s[1] + 1))

\* every sub-block has a length byte in 1..=255 and that many bytes
LengthsInRange(ls) == \A i \in 1..Len(ls) : ls[i] \in 1..BUF_LEN

\* every sub-block but the last has the length 255
FullButLast(ls) == \A i \in 1..(Len(ls) - 1) : ls[i] = BUF_LEN

\* the encoder's first call wrote a raw extension
RawWritten == enc.stage = "open" /\ enc.calls = 1 /\ Len(enc.frames) = 0 /\ enc.errors = 0

\* the encoder's first call wrote a frame
ImageWritten == enc.stage = "open" /\ enc.calls = 1 /\ Len(enc.frames) = 1

\* the sub-blocks of the block the encoder wrote, from position from on, without
\* the last byte of the output
BlockBody(from) == SubSeq(enc.w, from, Len(enc.w) - 1)

\* C17: the sub-blocks a BlockWriter emits, and those of write_raw_extension, have
\* a length byte in 1..=255 followed by that many bytes; all but the last of a
\* BlockWriter have length 255; the blocks written by write_image_block and
\* write_raw_extension end with one zero terminator behind the last sub-block
C17_LengthPrefix ==
    /\ bw.stage \in {"open", "released"} =>
           /\ LengthsInRange(Lengths(bw.out))
           /\ FullButLast(Lengths(bw.out))
    /\ bw.stage = "open" => \A i \in 1..Len(Lengths(bw.out)) : Lengths(bw.out)[i] = BUF_LEN
    /\ RawWritten =>
           /\ LengthsInRange(Lengths(BlockBody(GlobalTableEnd + 3)))
           /\ enc.w[Len(enc.w)] = 0
    /\ ImageWritten =>
           /\ LengthsInRange(Lengths(BlockBody(MinCodeSizeAt + 1)))
           /\ FullButLast(Lengths(BlockBody(MinCodeSizeAt + 1)))
           /\ enc.w[Len(enc.w)] = 0

\* a block writer was released after 510 bytes: two sub-blocks of 255 bytes and
\* no third one
C17_Witness ==
    /\ bw.stage = "released"
    /\ Len(bw.sent) = 2 * BUF_LEN
    /\ Lengths(bw.out) = <<BUF_LEN, BUF_LEN>>

\* C18: the data bytes of the sub-blocks emitted, followed by the bytes still
\* buffered, are the bytes the write calls reported as written, in their order;
\* after the release nothing is buffered; between calls the buffer holds 0..=254 bytes
C18_Framing ==
    /\ bw.stage = "open" =>
           /\ Payload(bw.out) \o bw.writer.buf = bw.sent
           /\ bw.writer.bytes = Len(bw.writer.buf)
           /\ bw.writer.bytes \in 0..(BUF_LEN - 1)
    /\ bw.stage = "released" =>
           /\ Payload(bw.out) = bw.sent
           /\ bw.sent = DataFrom(0, Len(bw.sent))

\* a block writer was released with more than two sub-blocks' worth of bytes
\* written, the last call having been cut short
C18_Witness ==
    /\ bw.stage = "released"
    /\ Len(bw.sent) > 2 * BUF_LEN
    /\ Len(Lengths(bw.out)) = 3
    /\ Payload(bw.out) = bw.sent

\* the output sink can take what the decoder's mode writes: a slice has room, and a
\* growable buffer is passed only to a decoder that copies
SinkFits ==
    /\ sink.kind = "Slice" => sink.cap > 0
    /\ sink.kind = "Vec" => d.skip_frame_decoding

\* blocks whose first length byte is not 0: a comment of two sub-blocks, a control
\* extension, an image of one sub-block, an unknown block of one sub-block
DataBlocks ==
    {<<33, 254, 2, 7, 8, 1, 9, 0>>, ControlExt(0, 0, 0),
     Image(0, 0, 1, 1, 0, <<>>, 2, <<1, 1>>), <<80, 1, 5, 0>>}

\* blocks whose first length byte is 0: a comment, an application extension, an
\* image and an unknown block, each without sub-block
NoDataBlocks ==
    {<<33, 254, 0>>, <<33, 255, 0>>, Image(0, 0, 1, 1, 0, <<>>, 2, <<>>), <<80, 0>>}

\* the tags of the format
BlockTags == {33, 44, 59}

\* whether the decoder reads the block at all: an unknown tag needs allow_unknown_blocks
Reads(block) == BlockFromU8(block[1]) # "None" \/ d.allow_unknown_blocks

\* the decoder, fed the block and then the byte f, has taken f as the tag of the
\* next block
TagAfter(block, f) ==
    Drain(d, block \o <<f>>, <<>>).d.state = IF f = 59 THEN Trailer ELSE BlockStart(f)

\* C21 for blocks that hold data: between two blocks, the byte after the zero length
\* byte that ends the block is taken as the next block tag
C21_TerminatorAfterData ==
    (AtBlockBoundary /\ SinkFits) =>
        \A block \in DataBlocks, f \in BlockTags : Reads(block) => TagAfter(block, f)

\* C21: for known extensions, image data that is decoded or copied, and skipped
\* unknown blocks, a length byte of 0 ends the block and the byte after it is taken
\* as the next block tag, also when the first length byte of the block is 0
C21_ZeroTerminates ==
    /\ C21_TerminatorAfterData
    /\ (AtBlockBoundary /\ SinkFits) =>
           \A block \in NoDataBlocks, f \in BlockTags : Reads(block) => TagAfter(block, f)

\* the decoder is inside an image-data sub-block of which left bytes are still to come
InSubBlock == d.state.s = "DecodeSubBlock" /\ d.state.n > 0

\* update() on the slice buf keeps count of the sub-block: what it consumes is
\* taken off the bytes still to come
KeepsCount(buf) ==
    LET r == Update(d, buf, sink, TRUE)
    IN r.kind = "Ok" =>
         /\ r.n <= d.state.n
         /\ r.d.state = DecodeSubBlock(d.state.n - r.n)

\* C22 while the LZW decoder has not reached its end code and the sink is a slice:
\* the bytes consumed are taken off the declared length
C22_AccountingWhileDecoding ==
    (InSubBlock /\ sink.kind = "Slice" /\ ~LzwHasEnded(d.lzw_reader)) =>
        \A buf \in ProbeSlices \ {<<>>} : KeepsCount(buf)

\* C22: in decode mode the decoder consumes exactly the declared length of an
\* image-data sub-block as data before it reads a length byte again, for every
\* chunking and for the sinks Slice and discard, also when the LZW decoder has
\* reached its end code and when the chunk ends inside the sub-block
C22_SubBlockLength ==
    (InSubBlock /\ sink.kind \in {"Slice", "None"}) =>
        \A buf \in ProbeSlices \ {<<>>} : KeepsCount(buf)

\* the four bytes of a control extension are read: the block terminator is due
AtControlEnd == d.state = SkipBlock(0) /\ d.ext.id = 249 /\ Len(d.ext.data) = 6

\* the message of the BlockEnd arm's error
NoTerminator == "expected block terminator not found"

\* the state BlockEnd is entered with a zero terminator only, and no call has
\* returned the error of its other branch
C23_BlockEndZero ==
    /\ d.state.s = "BlockEnd" => d.state.n = 0
    /\ last.msg # NoTerminator

\* C23: a non-zero byte where the terminator of a block is expected is answered
\* with the Format error "expected block terminator not found", at that byte or at
\* the byte after it (in the state BlockEnd(t) with t # 0)
C23_TerminatorChecked ==
    AtControlEnd =>
        \A t \in 1..255, b \in RetryBytes :
            Drain(d, <<t, b>>, <<>>).end = NoTerminator

\* the control values of a frame: what a control extension sets
ControlValues(delay, dispose, needs_user_input, transparent) ==
    [delay |-> delay, dispose |-> dispose, needs_user_input |-> needs_user_input,
     transparent |-> transparent]

\* the control values the bytes of a control extension stand for: bit 0 of the
\* flags says whether the transparent index is valid, bit 1 is needs-user-input,
\* bits 2 to 4 are the disposal method, values above 3 read as Any
ValuesOfExt(flags, delay, trns) ==
    ControlValues(delay,
                  CASE (flags \div 4) % 8 = 1 -> "Keep"
                    [] (flags \div 4) % 8 = 2 -> "Background"
                    [] (flags \div 4) % 8 = 3 -> "Previous"
                    [] OTHER -> "Any",
                  (flags \div 2) % 2 = 1,
                  IF flags % 2 = 1 THEN Some(trns) ELSE None)

\* the control values of a frame
ValuesOfFrame(f) == ControlValues(f.delay, f.dispose, f.needs_user_input, f.transparent)

\* the control extensions tried, as <<flags, delay, transparent index>>
Controls == {<<5, 258, 7>>, <<0, 0, 0>>, <<14, 1, 9>>, <<29, 65535, 255>>}

\* the bytes and the values of the control extension c
ExtBytes(c) == ControlExt(c[1], c[2], c[3])

ExtValues(c) == ValuesOfExt(c[1], c[2], c[3])

\* an image of one pixel whose data is the end code
PlainImage == Image(0, 0, 1, 1, 0, <<>>, 2, <<1, 1>>)

\* buf fed as its first j bytes and then the rest
DrainSplit(buf, j) ==
    LET a == Drain(d, Take(buf, j), <<>>)
    IN IF a.end # "exhausted" THEN a ELSE Drain(a.d, Drop(buf, j), a.evs)

\* fed buf in any two chunks, the decoder returns n FrameMetadata events and the
\* last of them carries the control values v
LastFrameHas(buf, n, v) ==
    \A j \in 1..Len(buf) :
        LET fs == FrameEvents(DrainSplit(buf, j).evs)
        IN Len(fs) = n /\ ValuesOfFrame(fs[n].f[1]) = v

\* the block before the boundary the decoder is at was a control extension
AfterControl == log # <<>> /\ log[1].e = "BlockFinished" /\ log[1].x = 249

\* the control values of that extension, taken from the bytes the event carries
ValuesBefore ==
    ValuesOfExt(log[1].data[3], log[1].data[4] + 256 * log[1].data[5], log[1].data[6])

\* the decoder is between two blocks of an unaltered stream, with a sink that fits
BetweenBlocks == AtBlockBoundary /\ retries = 0 /\ SinkFits

\* C24 for images with at most one control extension before them: there is no
\* frame before the first block nor after DataEnd; an image gets the values of
\* the control extension before it, whatever the chunking; an image without a
\* control extension since the last DataEnd gets the values of a fresh frame
C24_OneControl ==
    /\ InHeader => d.current = None
    /\ last.e = "DataEnd" => d.current = None
    /\ (BetweenBlocks /\ ~AfterControl) =>
           /\ d.current = None
           /\ LastFrameHas(PlainImage, 1, ValuesOfFrame(DefaultFrame))
           /\ \A c \in Controls :
                  /\ LastFrameHas(ExtBytes(c) \o PlainImage, 1, ExtValues(c))
                  /\ LastFrameHas(ExtBytes(c) \o PlainImage \o PlainImage, 2,
                                  ValuesOfFrame(DefaultFrame))
    /\ (BetweenBlocks /\ AfterControl) =>
           /\ d.current # None
           /\ LastFrameHas(PlainImage, 1, ValuesBefore)

\* C24: the frame is created at a control extension or image separator and is
\* absent after every DataEnd; the FrameMetadata event of an image carries the
\* delay, disposal, needs-user-input and transparency of the control extension
\* that directly precedes the image, whatever the chunking; an image without a
\* control extension since the last DataEnd gets the values of a fresh frame
C24_FrameLifecycle ==
    /\ C24_OneControl
    /\ BetweenBlocks =>
           \A c \in Controls :
               /\ AfterControl => LastFrameHas(ExtBytes(c) \o PlainImage, 1, ExtValues(c))
               /\ \A b \in Controls :
                      LastFrameHas(ExtBytes(b) \o ExtBytes(c) \o PlainImage, 1, ExtValues(c))

RECURSIVE Framed(_)
\* sub-blocks on the wire: each behind its length byte
Framed(subs) ==
    IF subs = <<>> THEN <<>>
    ELSE <<Len(Head(subs))>> \o Head(subs) \o Framed(Tail(subs))

RECURSIVE Joined(_)
\* the data portions of the sub-blocks, in order
Joined(subs) == IF subs = <<>> THEN <<>> ELSE Head(subs) \o Joined(Tail(subs))

\* an image of one pixel whose data is the sub-blocks subs
ImageOf(subs) == Image(0, 0, 1, 1, 0, <<>>, 2, Framed(subs))

\* the data of the images tried: one sub-block, two sub-blocks, data bytes that are 0
CopiedData == {<<<<1>>>>, <<<<8, 9, 10>>, <<1>>>>, <<<<0, 0>>, <<5>>>>}

\* a comment extension with one sub-block of 31 bytes
Comment31 == <<33, 254, 31>> \o [i \in 1..31 |-> i] \o <<0>>

\* the caller's Vec before a frame: empty, every count right so far, no DataEnd yet
NoCopy == [vec |-> <<>>, counted |-> TRUE, done |-> FALSE]

\* whether the event of the call that returned r reports what the call appended
Counted(r) == IF r.ev.e = "LzwDataCopied" THEN r.ev.x = Len(r.out) ELSE r.out = <<>>

RECURSIVE CopyRun(_, _, _, _)
\* the caller's loop over buf with slices of at most k bytes, up to the first
\* DataEnd event: vec is what the calls appended to the caller's Vec
CopyRun(dd, buf, k, run) ==
    IF buf = <<>> THEN run
    ELSE LET r == Update(dd, Take(buf, k), sink, TRUE)
         IN IF r.kind # "Ok" \/ r.ev.e = "Trailer" \/ Stalled(dd, r) THEN run
            ELSE IF r.ev.e = "DataEnd" THEN [run EXCEPT !.done = TRUE]
            ELSE CopyRun(r.d, Drop(buf, r.n), k,
                         [run EXCEPT !.vec = @ \o r.out, !.counted = @ /\ Counted(r)])

\* the lengths of the slices a stream is fed in
ChunkLens(stream) == (1..3) \cup {Len(stream)}

\* the decoder copies, is between two blocks and appends to a Vec
CopiesToVec == BetweenBlocks /\ d.skip_frame_decoding /\ sink.kind = "Vec"

\* the decoder is inside a sub-block it copies into a slice
CopiesToSlice == d.state.s = "CopySubBlock" /\ d.state.n > 0 /\ sink.kind = "Slice"

\* a call on the slice buf puts as many bytes into the output slice as it consumes
\* and reports: the first bytes of buf, taken off the sub-block
SliceCopy(buf) ==
    LET r == Update(d, buf, sink, TRUE)
    IN /\ r.kind = "Ok"
       /\ r.ev = Ev("LzwDataCopied", r.n, <<>>, None)
       /\ r.out = Take(buf, r.n)
       /\ r.n = Min(Min(d.state.n, Len(buf)), sink.cap)
       /\ r.d.state = CopySubBlock(d.state.n - r.n)

\* C25 for frames that have a data sub-block: the Vec holds the data portions of
\* the sub-blocks when DataEnd is returned, every LzwDataCopied reports what its
\* call appended, and a call with a Slice sink consumes what it copies
C25_CopiesSubBlocks ==
    /\ CopiesToVec =>
           \A subs \in CopiedData, f \in {<<>>, <<59>>} :
               \A k \in ChunkLens(ImageOf(subs) \o f) :
                   CopyRun(d, ImageOf(subs) \o f, k, NoCopy)
                       = [vec |-> Joined(subs), counted |-> TRUE, done |-> TRUE]
    /\ CopiesToSlice => \A buf \in ProbeSlices \ {<<>>} : SliceCopy(buf)

\* C25: with skip_frame_decoding and a Vec sink, when DataEnd is returned the bytes
\* appended to the sink for the frame are the data portions of the frame's
\* sub-blocks in order, for every chunking; each LzwDataCopied(n) reports the
\* bytes its call appended; with a Slice sink a call consumes as many bytes as it
\* copies
C25_CopyVerbatim ==
    /\ C25_CopiesSubBlocks
    /\ CopiesToVec =>
           \A f \in {<<>>, <<59>>, Comment31} :
               \A k \in ChunkLens(ImageOf(<<>>) \o f) :
                   LET run == CopyRun(d, ImageOf(<<>>) \o f, k, NoCopy)
                   IN run.counted /\ (run.done => run.vec = <<>>)

\* the states whose arm reads or writes the current frame
AccessesFrame(st) ==
    \/ st.s \in {"U16", "U16Byte1"} /\ st.v \in {"Delay", "ImageLeft", "ImageTop", "ImageWidth", "ImageHeight"}
    \/ st.s = "Byte" /\ st.v \in {"ControlFlags", "TransparentIdx", "ImageFlags"}
    \/ st.s \in {"LocalPalette", "LzwInit"}

\* bytes of every kind an arm tells apart: lengths, block tags, extension labels,
\* flag bytes, code sizes, the largest byte
AnyByte == {0, 1, 2, 4, 12, 33, 44, 59, 80, 128, 249, 254, 255}

\* C26: in every state whose arm accesses the current frame the frame is present,
\* so no update() call, on the bytes fed or on any other byte, unwraps None
C26_NoMissingFrame ==
    /\ last.kind # "Panic"
    /\ AccessesFrame(d.state) => d.current # None
    /\ \A b \in AnyByte : Update(d, <<b>>, sink, TRUE).kind # "Panic"

\* a second frame is being read: the frame of the image before it was given up
\* when its data ended, and the arm of LzwInit finds the new one
C26_SecondFrame ==
    /\ family = "bytes"
    /\ d.state.s = "LzwInit"
    /\ d.current # None
    /\ d.lzw_reader.decoder # None
    /\ last.kind = "Ok"

\* the non-empty slices a caller may pass in any state
AnySlices == {<<b>> : b \in AnyByte} \cup {<<b, c>> : b \in {0, 1, 2}, c \in {0, 1, 44}}

\* the call that returned r from the decoder dd consumed input or changed the state
Advanced(dd, r) == r.n > 0 \/ r.d.state # dd.state

\* the call that returned r handed out pixels that the LZW decoder had buffered
Flushed(dd, r) ==
    /\ dd.state.s = "DecodeSubBlock"
    /\ r.ev.e = "BytesDecoded"
    /\ r.ev.x > 0
    /\ r.d.lzw_reader.decoder[1].pending < dd.lzw_reader.decoder[1].pending

\* a sub-block is being copied into a slice without room
NoRoomToCopy == d.state.s = "CopySubBlock" /\ d.state.n > 0 /\ sink = Slice(0)

\* C27 but for a copy into a zero-length slice: a successful update() on a
\* non-empty slice consumes input or changes the state, or hands out buffered pixels
C27_ProgressWithRoom ==
    (d.state # Trailer /\ ~NoRoomToCopy) =>
        \A buf \in AnySlices :
            Update(d, buf, sink, TRUE).kind = "Ok" =>
                \/ Advanced(d, Update(d, buf, sink, TRUE))
                \/ Flushed(d, Update(d, buf, sink, TRUE))

\* the call before left the pixels of a code in the LZW decoder, and the next one
\* hands them out
C27_Buffered ==
    /\ family = "bytes"
    /\ d.state.s = "DecodeSubBlock"
    /\ sink = Slice(SliceCap)
    /\ last.kind = "Ok"
    /\ \E buf \in AnySlices : Flushed(d, Update(d, buf, sink, TRUE))

\* C27: in every state but Trailer a successful update() on a non-empty slice
\* consumes at least one byte or changes the state, whatever the sink
C27_Progress ==
    d.state # Trailer =>
        \A buf \in AnySlices :
            Update(d, buf, sink, TRUE).kind = "Ok" => Advanced(d, Update(d, buf, sink, TRUE))

\* the caller holds the rest of a whole valid stream, trailer included, and passes
\* a sink that takes the image data: a decoder that decodes gets a slice
HoldsTrailer ==
    /\ ValidSoFar /\ stage = "end"
    /\ SinkFits
    /\ sink.kind = "None" => d.skip_frame_decoding

\* the caller's loop on what it holds ends with BlockStart(Trailer) and Trailer,
\* or with Trailer alone when the decoder has reported the start of the trailer
TrailerReported ==
    LET run == FedWhole
        k == Len(run.evs)
    IN /\ run.end = "stopped"
       /\ run.d.state = Trailer
       /\ k >= 1 /\ run.evs[k].e = "Trailer"
       /\ d.state # Trailer => (k >= 2 /\ run.evs[k - 1] = Ev("BlockStart", 59, <<>>, None))

\* C28 for streams with a block before the trailer: the trailer is reported from
\* the bytes of the stream alone
C28_TrailerAfterBlock == (HoldsTrailer /\ nblocks > 0) => TrailerReported

\* the last block was an image, its DataEnd has been returned and the trailer is
\* all that is left
C28_AfterImage ==
    /\ HoldsTrailer /\ nblocks > 0
    /\ tail = <<59>>
    /\ last.e = "DataEnd"
    /\ d.state = BlockEnd(0)

\* C28: on a well-formed stream that ends with the trailer, with or without
\* blocks before it, the caller's loop on the bytes of the stream yields
\* BlockStart(Trailer) and then Trailer
C28_TrailerReported == HoldsTrailer => TrailerReported

\* Encoder::new returned the error of a global palette of more than 256 colors
NewFailed == enc.stage = "failed" /\ enc.res = TooManyColors

\* C29 for the header: a failed Encoder::new has written no signature, screen
\* descriptor or color table; the writer holds the one byte of the trailer
C29_NoHeaderWhenFailed == NewFailed => enc.w = <<59>>

\* C29: when Encoder::new fails for a global palette of more than 256 colors, no
\* byte has been written to the writer
C29_FailedNewWritesNothing == NewFailed => enc.w = <<>>

\* fed buf in any two chunks, the decoder returns one FrameMetadata event, and its
\* frame has the transparent index the control extension c stands for
TransparencyOf(buf, c) ==
    \A j \in 1..Len(buf) :
        LET fs == FrameEvents(DrainSplit(buf, j).evs)
        IN Len(fs) = 1 /\ fs[1].f[1].transparent = ExtValues(c).transparent

\* the control extension c has bit 0 of its flags set
HasTransparency(c) == c[1] % 2 = 1

\* C30 unless a control extension without the transparency flag follows one that
\* has it: the frame's transparent index is that of the last control extension
\* before the image
C30_FlagNotCleared ==
    (BetweenBlocks /\ ~AfterControl) =>
        \A c \in Controls :
            /\ TransparencyOf(ExtBytes(c) \o PlainImage, c)
            /\ \A b \in Controls :
                   (~HasTransparency(b) \/ HasTransparency(c)) =>
                       TransparencyOf(ExtBytes(b) \o ExtBytes(c) \o PlainImage, c)

\* C30: the FrameMetadata event of an image has a transparent index if and only
\* if bit 0 of the flags of the last control extension before the image is set,
\* and then it is that extension's index, also when several control extensions
\* precede the image
C30_LatestControl ==
    (BetweenBlocks /\ ~AfterControl) =>
        \A b, c \in Controls : TransparencyOf(ExtBytes(b) \o ExtBytes(c) \o PlainImage, c)

\* the min-code-size byte of the frame that was written
WrittenCodeSize == enc.w[MinCodeSizeAt]

\* C31: the min-code-size byte c that write_image_block writes for a pixel buffer
\* is between 2 and 8, every pixel of the buffer is less than 2^c, and the
\* decoder's LzwReader::reset accepts c
C31_AlphabetCoversPixels ==
    FrameWritten =>
        /\ WrittenCodeSize \in 2..8
        /\ \A i \in 1..Len(enc.frames[1].buffer) :
               enc.frames[1].buffer[i] < Pow2(WrittenCodeSize)
        /\ ~LzwInvalidCodeSize(WrittenCodeSize)
        /\ Decoded.end # "invalid minimal code size"

\* a frame whose pixel is the first value that needs one more bit was written:
\* 16 with the code size 5
C31_Witness ==
    /\ FrameWritten
    /\ enc.frames[1].buffer = <<16>>
    /\ WrittenCodeSize = 5
    /\ Decoded.end # "invalid minimal code size"

============================================================================
